---- MODULE Spec2Model ----
(***************************************************************************)
(* Credits ledger of @sparked/credits-sdk (src/src/client.ts).             *)
(*                                                                         *)
(* The store is a Redis instance: one scalar `balance:{userId}` and one    *)
(* sorted set `txs:{userId}` per user.  Any number of SDK clients issue    *)
(* calls; a call is a sequence of network round trips, and each round trip *)
(* (a plain command or one EVAL of a Lua script) is one atomic step of the *)
(* store.  The client-side computation that follows a round trip touches   *)
(* only the caller's own memory and is folded into the step of that round  *)
(* trip.                                                                   *)
(***************************************************************************)
EXTENDS Integers, Sequences, FiniteSets, TLC

\* ------------------------------------------------------------------ bounds
MaxCalls == 2            \* calls issued in one behaviour of Spec
MaxTime == 1             \* last reading of the millisecond clock
MaxLedgerCalls == 3      \* calls issued in one behaviour of SpecLedger
MaxBalance == 3          \* largest opening balance of SpecDeduct
MaxReconcileCalls == 6   \* calls issued in one behaviour of SpecReconcile
MaxLogLen == 3           \* longest opening log of SpecRoundTrip
MaxRoundTripCalls == 4   \* calls issued in one behaviour of SpecRoundTrip
MaxFaultCalls == 3       \* calls issued in one behaviour of SpecFault
MaxHistoryCalls == 3     \* calls issued in one behaviour of SpecHistory

MaxUserIdLength == 256   \* `trimmedUserId.length > 256`
DefaultLimit == 50       \* `limit = 50`
MaxResults == 1000       \* `MAX_RESULTS = 1e3` of the built bundle, "max: 1000"

Users == {"u1", "u2"}
LongUserId == "x*257"             \* 257 times the letter x
FullUserId == "x*256"             \* 256 times the letter x
PaddedUserId == "x*256 "          \* 256 times the letter x, then a space
\* Every string a caller passes as a user id, and so every key of the store.
UserIds ==
  Users \cup {"", " ", "u1\n", "\ru1", "a\nb", LongUserId, FullUserId, PaddedUserId}
Clients == {"c1", "c2", "c3"}
Callers == {"c1", "c2"}           \* the clients of the wide specifications
Amounts == {0, 1, 2}              \* 0 does not pass validation
Credits == {-1, 0, 1, 2}          \* -1 does not pass validation
ActionTags == {"", "use"}         \* "" does not pass validation
ActionStrings == {"", " ", "\n ", "use", " use"}
Undefined == <<>>                 \* an optional value that is not given
Metadatas == {Undefined, <<"app">>}

\* ------------------------------------------------------------ JS values
\* A JavaScript number: a finite value, NaN, Infinity or -Infinity.
Num(n) == [k |-> "finite", v |-> n]
NaN == [k |-> "NaN", v |-> 0]
PlusInfinity == [k |-> "Infinity", v |-> 0]
MinusInfinity == [k |-> "-Infinity", v |-> 0]
Numbers == {Num(-1), Num(0), Num(1), Num(2), NaN, PlusInfinity, MinusInfinity}

\* x < n and x <= n for a finite n; every comparison with NaN is false.
LessThan(x, n) == (x.k = "finite" /\ x.v < n) \/ x.k = "-Infinity"
LessOrEqual(x, n) == (x.k = "finite" /\ x.v <= n) \/ x.k = "-Infinity"
NumberIsFinite(x) == x.k = "finite"

\* The characters of the strings of the model; any other string is taken
\* as one character that is not white space.
CharsOf(str) ==
  CASE str = "" -> <<>>
    [] str = " " -> <<" ">>
    [] str = "\n " -> <<"\n", " ">>
    [] str = "use" -> <<"u", "s", "e">>
    [] str = " use" -> <<" ", "u", "s", "e">>
    [] str = "u1" -> <<"u", "1">>
    [] str = "u2" -> <<"u", "2">>
    [] str = "u1\n" -> <<"u", "1", "\n">>
    [] str = "\ru1" -> <<"\r", "u", "1">>
    [] str = "a\nb" -> <<"a", "\n", "b">>
    [] str = "txs:u1" -> <<"t", "x", "s", ":", "u", "1">>
    [] str = LongUserId -> [i \in 1..(MaxUserIdLength + 1) |-> "x"]
    [] str = FullUserId -> [i \in 1..MaxUserIdLength |-> "x"]
    [] str = PaddedUserId ->
         [i \in 1..(MaxUserIdLength + 1) |->
            IF i <= MaxUserIdLength THEN "x" ELSE " "]
    [] OTHER -> <<str>>

\* String.prototype.trim removes white space and line terminators from
\* both ends.
WhiteSpace == {" ", "\t", "\n", "\r"}

RECURSIVE TrimStart(_)
TrimStart(chars) ==
  IF chars # <<>> /\ Head(chars) \in WhiteSpace
    THEN TrimStart(Tail(chars)) ELSE chars

RECURSIVE TrimEnd(_)
TrimEnd(chars) ==
  IF chars # <<>> /\ chars[Len(chars)] \in WhiteSpace
    THEN TrimEnd(SubSeq(chars, 1, Len(chars) - 1)) ELSE chars

Trim(chars) == TrimEnd(TrimStart(chars))
Includes(chars, ch) == \E i \in 1..Len(chars) : chars[i] = ch

\* TRUE when validateUserId returns without throwing.
validateUserId(userId) ==
  LET trimmedUserId == Trim(CharsOf(userId))
  IN /\ CharsOf(userId) # <<>>
     /\ Len(trimmedUserId) # 0
     /\ ~(Len(trimmedUserId) > MaxUserIdLength)
     /\ ~(Includes(trimmedUserId, "\n") \/ Includes(trimmedUserId, "\r"))

\* The outcome of validateUserId for each user id of the model.
ValidUserId == [userId \in UserIds |-> validateUserId(userId)]

\* ------------------------------------------------------------ keys
\* Variant of getBalanceKey: the key is built from the trimmed user id.
getBalanceKeyTrimmed(userId) ==
  <<"b", "a", "l", "a", "n", "c", "e", ":">> \o Trim(CharsOf(userId))

\* `balance:${userId}` and `txs:${userId}`
getBalanceKey(userId) ==
  <<"b", "a", "l", "a", "n", "c", "e", ":">> \o CharsOf(userId)
getTransactionsKey(userId) == <<"t", "x", "s", ":">> \o CharsOf(userId)

\* The keys of every user id of the model.  The store is indexed by user
\* id: balance[u] is the value at getBalanceKey(u), txs[u] the sorted set at
\* getTransactionsKey(u).
BalanceKey == [userId \in UserIds |-> getBalanceKey(userId)]
TransactionsKey == [userId \in UserIds |-> getTransactionsKey(userId)]

VARIABLES
  balance,   \* balance[u]: the scalar balance:{u}; <<>> when the key is absent, <<n>> otherwise
  txs,       \* txs[u]: the sorted set txs:{u}, as the sequence of its entries in order of insertion
  call,      \* call[c]: the call client c is executing or has last finished
  now,       \* the millisecond clock read by Date.now()
  ncalls     \* number of calls issued so far

VARIABLES
  configs,   \* configs[o]: the own properties of the configuration object o
  engines,   \* engines[e]: <<o>> when engine e was constructed and its `config` refers to o
  priced     \* the last call made on a pricing engine, with its outcome

VARIABLE
  unit       \* amounts are held in fixed point: the integer x is the number x / unit

VARIABLE
  sdk        \* sdk[c]: the CreditsSDK object of client c, with the options it was built from

VARIABLE
  run        \* the reconciliation run: its position, the user ids it goes through, its counters

pricingVars == <<configs, engines, priced>>
vars == <<balance, txs, call, now, ncalls, configs, engines, priced, unit, sdk, run>>

\* Number.isInteger, and the integer a Lua number becomes in a reply of the
\* store (its fraction is dropped).
IsInteger(x) == x % unit = 0
ToInteger(x) == IF x >= 0 THEN (x \div unit) * unit ELSE -(((-x) \div unit) * unit)

\* Amounts in whole credits, and amounts in halves of a credit (3 is 1.5).
WholeCredits == unit = 1
HalfCredits == unit = 2

\* ------------------------------------------------------------ constructor
\* `this.defaultCredits = config.options?.defaultCredits || 100`: the value
\* on the left is replaced when it is falsy, that is undefined, 0 or NaN.
DefaultCredits == 100
Falsy(x) == x.k = "NaN" \/ (x.k = "finite" /\ x.v = 0)

\* `new CreditsSDK(config)`; the options are kept beside the object.
NewCreditsSDK(options) ==
  [options |-> options,
   defaultCredits |-> IF options = <<>> \/ Falsy(options[1])
                        THEN Num(DefaultCredits) ELSE options[1]]

\* Every client was built without options.
Unconfigured == sdk = [c \in Clients |-> NewCreditsSDK(<<>>)]

\* ------------------------------------------------------------ reconcileAll
\* The run of reconcileAll: `stats`, the list getAllUserIds returned and the
\* number of its entries the loop is done with.
NoStats ==
  [pc |-> "idle", userIds |-> <<>>, index |-> 0, total |-> 0, verified |-> 0,
   fixed |-> 0, errors |-> 0]
NotStarted == run = NoStats

\* ------------------------------------------------------------ transaction ids
NoId == [tag |-> "none", ts |-> 0, rnd |-> 0]
AlreadyInitialized == [tag |-> "already_initialized", ts |-> 0, rnd |-> 0]

\* `tx_${Date.now()}_${Math.random()...}`.  The pseudo-random part is taken
\* to be different at every draw; the draws are named by their number.
generateTxId == [tag |-> "tx", ts |-> now, rnd |-> ncalls]

\* ------------------------------------------------------------ transactions
Transaction(id, amount, action, metadata, timestamp) ==
  [id |-> id, amount |-> amount, action |-> action, metadata |-> metadata,
   timestamp |-> timestamp]

\* JSON.stringify drops a property whose value is undefined; the text is
\* represented by the record of the properties it carries.
JSONStringify(tx) ==
  IF tx.metadata = Undefined
    THEN [id |-> tx.id, amount |-> tx.amount, action |-> tx.action,
          timestamp |-> tx.timestamp]
    ELSE tx

\* JSON.parse: a property missing from the text reads as undefined.
JSONParse(str) ==
  IF "metadata" \in DOMAIN str
    THEN str
    ELSE Transaction(str.id, str.amount, str.action, Undefined, str.timestamp)

\* ------------------------------------------------------------ store commands
\* Variant of GetOrZero: a missing key reads as the default starting credits.
GetOrDefault(u) == IF balance[u] = <<>> THEN 100 ELSE balance[u][1]

\* GET key, as seen through `?? 0` / `or 0`.
GetOrZero(u) == IF balance[u] = <<>> THEN 0 ELSE balance[u][1]

\* Variant of ZADD: entries are keyed by their score, so an entry replaces
\* the entries of the same millisecond.
ZADDKeyedByScore(zset, score, member) ==
  Append(SelectSeq(zset, LAMBDA e : e.score # score),
         [score |-> score, member |-> member])

\* ZADD key score member: a member already in the set only has its score
\* updated; a new member is inserted.
ZADD(zset, score, member) ==
  IF \E i \in 1..Len(zset) : zset[i].member = member
    THEN [i \in 1..Len(zset) |->
            IF zset[i].member = member
              THEN [score |-> score, member |-> member] ELSE zset[i]]
    ELSE Append(zset, [score |-> score, member |-> member])

RECURSIVE SumAmounts(_)
SumAmounts(results) ==
  IF results = <<>> THEN 0
  ELSE JSONParse(Head(results).member).amount + SumAmounts(Tail(results))

\* Variant of calculateBalanceFromTransactions: only the credits are summed.
calculateBalanceOfCredits(u) ==
  SumAmounts(SelectSeq(txs[u], LAMBDA e : JSONParse(e.member).amount > 0))

\* zrange(txsKey, 0, -1) followed by the reduce over the parsed amounts.
calculateBalanceFromTransactions(u) == SumAmounts(txs[u])

\* ------------------------------------------------------------ results
NoResult ==
  [kind |-> "none", txId |-> NoId, balance |-> 0, required |-> 0,
   available |-> 0, valid |-> TRUE, cached |-> 0, calculated |-> 0,
   difference |-> 0, transactions |-> <<>>]
TransactionResult(txId, bal) ==
  [NoResult EXCEPT !.kind = "TransactionResult", !.txId = txId, !.balance = bal]
\* Variant of TransactionError: the error does not carry the transaction id.
TransactionErrorWithoutId(txId) == [NoResult EXCEPT !.kind = "TransactionError"]

TransactionError(txId) ==
  [NoResult EXCEPT !.kind = "TransactionError", !.txId = txId]
InsufficientCreditsError(required, available) ==
  [NoResult EXCEPT !.kind = "InsufficientCreditsError", !.required = required,
                   !.available = available]
NumberResult(n) == [NoResult EXCEPT !.kind = "number", !.balance = n]
\* Variant of BalanceVerification: a difference of one credit is tolerated.
BalanceVerificationWithTolerance(cached, calculated) ==
  [NoResult EXCEPT !.kind = "BalanceVerification", !.cached = cached,
                   !.calculated = calculated,
                   !.difference = cached - calculated,
                   !.valid = (cached - calculated \in {-1, 0, 1})]

\* `difference = cachedBalance - calculatedBalance; valid = difference === 0`
BalanceVerification(cached, calculated) ==
  [NoResult EXCEPT !.kind = "BalanceVerification", !.cached = cached,
                   !.calculated = calculated,
                   !.difference = cached - calculated,
                   !.valid = (cached - calculated = 0)]
BalanceVerificationError(cached, calculated) ==
  [NoResult EXCEPT !.kind = "BalanceVerificationError", !.cached = cached,
                   !.calculated = calculated, !.valid = FALSE]

TransactionList(transactions) ==
  [NoResult EXCEPT !.kind = "Transaction[]", !.transactions = transactions]

\* ------------------------------------------------------------ calls
\* The options of getTransactions; a property that is not given is <<>>.
NoOptions == [limit |-> <<>>, startTime |-> <<>>, endTime |-> <<>>]
Options(limit, startTime, endTime) ==
  [limit |-> limit, startTime |-> startTime, endTime |-> endTime]

\* `value ?? default`, and the default of a destructured property.
OrElse(value, default) == IF value = <<>> THEN default ELSE value[1]

Idle ==
  [op |-> "none", pc |-> "idle", user |-> "u1", amount |-> 0, action |-> "",
   metadata |-> Undefined, txId |-> NoId, timestamp |-> 0,
   correct |-> 0, cached |-> 0, result |-> NoResult, fault |-> FALSE,
   options |-> NoOptions]

CanCall(c) == call[c].pc \in {"idle", "done"}

\* A call that has returned keeps its name, its user, its amount and its result.
Finished(op, u, amount, result) ==
  [Idle EXCEPT !.op = op, !.pc = "done", !.user = u, !.amount = amount,
               !.result = result]

\* Validation failed: TransactionError without a transaction id, no store call.
Rejected(op, u) == Finished(op, u, 0, TransactionError(NoId))

\* Variant of InFlight: no transaction id is generated for the call.
InFlightWithoutId(op, u, amount, action, metadata) ==
  [Idle EXCEPT !.op = op, !.pc = "eval", !.user = u, !.amount = amount,
               !.action = action, !.metadata = metadata, !.timestamp = now]

\* The arguments, the id and the timestamp a mutating call sends in its EVAL.
InFlight(op, u, amount, action, metadata) ==
  [Idle EXCEPT !.op = op, !.pc = "eval", !.user = u, !.amount = amount,
               !.action = action, !.metadata = metadata,
               !.txId = generateTxId, !.timestamp = now]

\* The same, with the value drawn by Math.random() given: the generator is
\* seeded per process and nothing compares a new id with the ids in use.
InFlightDrawn(op, u, amount, action, metadata, random) ==
  [InFlight(op, u, amount, action, metadata) EXCEPT
     !.txId = [tag |-> "tx", ts |-> now, rnd |-> random]]

\* Variant of Done: the call does not return and stays in flight, so that
\* its round trip is made again.
DoneRetried(c, result) == call[c]

Done(c, result) == Finished(call[c].op, call[c].user, call[c].amount, result)

\* A call that has returned after its round trip failed at the store.
Failed(c, result) == [Done(c, result) EXCEPT !.fault = TRUE]

\* Variant of TxOf: deduct logs the amount without negating it.
TxOfUnsigned(cl) ==
  Transaction(cl.txId, cl.amount, cl.action, cl.metadata, cl.timestamp)

\* Variant of TxOf: add logs the negated amount, as deduct does.
TxOfNegated(cl) ==
  Transaction(cl.txId,
              IF cl.op \in {"deduct", "add"} THEN -cl.amount ELSE cl.amount,
              cl.action, cl.metadata, cl.timestamp)

\* The transaction object a mutating call builds before its EVAL.
TxOf(cl) ==
  Transaction(cl.txId,
              IF cl.op = "deduct" THEN -cl.amount ELSE cl.amount,
              cl.action, cl.metadata, cl.timestamp)

\* ------------------------------------------------------------ pricing
\* A usage value or a cost: the number written n/d, NaN or an infinity.
Decimal(n, d) == [k |-> "finite", n |-> n, d |-> d]
NotANumber == [k |-> "NaN", n |-> 0, d |-> 1]
Infinite == [k |-> "Infinity", n |-> 0, d |-> 1]

\* The `calculate` functions: Math.ceil(value * rate), and a fixed price.
CeilTimes(rate) == [rate |-> rate, calculate |-> "ceil"]
Fixed(price) == [rate |-> price, calculate |-> "fixed"]

Engines == {"E1", "E2"}
\* The exported table and a table built by a caller.
ConfigObjects == {"PRICING_CONFIG", "customConfig"}
PricingActions == {"video_generation", "training_job", "image_upscale", "toString"}
\* Every property name of the model: the actions, and two names that are
\* no action of a pricing table.
PropertyNames == PricingActions \cup {"__proto__", "rate"}
\* Properties every object inherits from Object.prototype; `__proto__` is
\* the accessor of the object's prototype.
ObjectPrototype ==
  {"toString", "constructor", "hasOwnProperty", "valueOf", "__proto__"}
\* The properties of a PricingConfig.
ConfigProperties == {"rate", "unit", "calculate"}

PRICING_CONFIG ==
  [a \in PropertyNames |->
     CASE a = "video_generation" -> <<CeilTimes(10)>>
       [] a = "training_job" -> <<CeilTimes(1000)>>
       [] OTHER -> <<>>]
CustomConfig ==
  [a \in PropertyNames |-> IF a = "image_upscale" THEN <<Fixed(7)>> ELSE <<>>]

\* configs[o][key] is the own property `key` of the object o, except for the
\* key `__proto__`, which no assignment makes an own property: there it is
\* the prototype of o when an assignment `o['__proto__'] = config` has
\* replaced Object.prototype by a configuration.
PrototypeIsConfig(o) == configs[o]["__proto__"] # <<>>

\* object[key]: the own property, else the one inherited from the prototype
\* (a value that is no configuration: it is truthy and has no `calculate`),
\* else undefined.
Inherited == [rate |-> 0, calculate |-> "undefined"]
GetProperty(o, key) ==
  IF configs[o][key] # <<>> THEN configs[o][key]
  ELSE IF PrototypeIsConfig(o) /\ key \in ConfigProperties THEN <<Inherited>>
  ELSE IF key \in ObjectPrototype THEN <<Inherited>>
  ELSE <<>>

\* `key in object`
HasProperty(o, key) ==
  \/ configs[o][key] # <<>>
  \/ PrototypeIsConfig(o) /\ key \in ConfigProperties
  \/ key \in ObjectPrototype

InitPricing ==
  /\ configs = [o \in ConfigObjects |->
       IF o = "PRICING_CONFIG" THEN PRICING_CONFIG ELSE CustomConfig]
  /\ engines = [e \in Engines |-> <<>>]
  /\ priced = [op |-> "none", engine |-> "E1", action |-> "", kind |-> "none",
               value |-> NotANumber, cost |-> NotANumber, config |-> Inherited,
               has |-> FALSE]

Priced(op, e, action, value) ==
  [op |-> op, engine |-> e, action |-> action, kind |-> "none", value |-> value,
   cost |-> NotANumber, config |-> Inherited, has |-> FALSE]
PricingConfigError(op, e, action, value) ==
  [Priced(op, e, action, value) EXCEPT !.kind = "PricingConfigError"]
TypeError(op, e, action, value) ==
  [Priced(op, e, action, value) EXCEPT !.kind = "TypeError"]

\* `new PricingEngine(customConfig)`: `this.config = customConfig || PRICING_CONFIG`.
NewPricingEngine(e, customConfig) ==
  /\ engines[e] = <<>>
  /\ engines' = [engines EXCEPT ![e] =
       IF customConfig = <<>> THEN <<"PRICING_CONFIG">> ELSE customConfig]
  /\ UNCHANGED <<unit, sdk, run, balance, txs, call, now, ncalls, configs, priced>>

\* value < 0; false for NaN.
Negative(value) == value.k = "finite" /\ value.n < 0

\* Numbers are IEEE-754 doubles: a non-negative one is held as its integer
\* part and the bits of its fraction, of which Precision are significant.
Precision == 53

IsZero(bits) == \A i \in 1..Len(bits) : bits[i] = 0
LeadingZeros(bits) == Cardinality({i \in 1..Len(bits) : IsZero(SubSeq(bits, 1, i))})

\* The arithmetic goes eight bits at a time.
Byte == 8
BitsOfByte(n) == [i \in 1..Byte |-> (n \div 2 ^ (Byte - i)) % 2]

\* Round to nearest, ties to even, at Precision significant bits.
RoundToNearest(int, frac) ==
  LET RECURSIVE BitsOf(_)
      BitsOf(n) == IF n = 0 THEN <<>> ELSE Append(BitsOf(n \div 2), n % 2)
      keep == IF int > 0 THEN Precision - Len(BitsOf(int))
              ELSE LeadingZeros(frac) + Precision
      kept == SubSeq(frac, 1, keep)
      lsb == IF keep > 0 THEN frac[keep] ELSE int % 2
      sticky == ~IsZero(SubSeq(frac, keep + 2, Len(frac)))
      up == frac[keep + 1] = 1 /\ (sticky \/ lsb = 1)
      \* one unit in the last place more, with the carry into the integer part
      zeros == {i \in 1..keep : kept[i] = 0}
      last == CHOOSE i \in zeros : \A j \in zeros : j <= i
      next == [i \in 1..keep |->
                 IF zeros = {} THEN 0
                 ELSE IF i < last THEN kept[i] ELSE IF i = last THEN 1 ELSE 0]
  IN IF Len(frac) <= keep THEN [int |-> int, frac |-> frac]
     ELSE IF up THEN [int |-> IF zeros = {} THEN int + 1 ELSE int, frac |-> next]
     ELSE [int |-> int, frac |-> kept]

\* The double a decimal literal n/d denotes.
ToDouble(n, d) ==
  LET \* the next `count` bits of the binary expansion of rem/d, where rem < d
      RECURSIVE ExpandBytes(_, _)
      ExpandBytes(rem, count) ==
        IF count <= 0 THEN <<>>
        ELSE BitsOfByte((rem * 2 ^ Byte) \div d)
               \o ExpandBytes((rem * 2 ^ Byte) % d, count - Byte)
      Expand(count) == SubSeq(ExpandBytes(n % d, count), 1, count)
      \* what is left of rem/d after `count` bits of its expansion
      RECURSIVE Remainder(_, _)
      Remainder(rem, count) ==
        IF count < Byte THEN (rem * 2 ^ count) % d
        ELSE Remainder((rem * 2 ^ Byte) % d, count - Byte)
      int == n \div d
      zeros == IF n % d = 0 THEN 0 ELSE LeadingZeros(Expand(Precision + 11))
      count == IF int > 0 THEN Precision + 1 ELSE zeros + Precision + 1
      sticky == IF Remainder(n % d, count) = 0 THEN 0 ELSE 1
  IN RoundToNearest(int, Append(Expand(count), sticky))

\* x * rate, for an integer rate
Times(x, rate) ==
  LET RECURSIVE ByteOfBits(_, _)
      ByteOfBits(bits, k) == IF k = 0 THEN 0 ELSE 2 * ByteOfBits(bits, k - 1) + bits[k]
      RECURSIVE TimesBits(_, _, _)
      TimesBits(bits, carry, low) ==
        IF bits = <<>> THEN [bits |-> low, carry |-> carry]
        ELSE LET k == IF Len(bits) < Byte THEN Len(bits) ELSE Byte
                 t == ByteOfBits(SubSeq(bits, Len(bits) - k + 1, Len(bits)), k) * rate
                        + carry
             IN TimesBits(SubSeq(bits, 1, Len(bits) - k), t \div 2 ^ k,
                          SubSeq(BitsOfByte(t % 2 ^ k), Byte - k + 1, Byte) \o low)
  IN RoundToNearest(x.int * rate + TimesBits(x.frac, 0, <<>>).carry,
                    TimesBits(x.frac, 0, <<>>).bits)

\* Math.ceil
Ceil(x) == IF IsZero(x.frac) THEN x.int ELSE x.int + 1

\* config.calculate(value)
Calculate(config, value) ==
  IF config.calculate = "fixed" THEN Decimal(config.rate, 1)
  ELSE IF value.k # "finite" THEN value
  ELSE Decimal(Ceil(Times(ToDouble(value.n, value.d), config.rate)), 1)

\* The outcome of calculateCost on the present tables.
CostOf(e, action, value) ==
  LET config == GetProperty(engines[e][1], action)
  IN IF config = <<>> THEN PricingConfigError("calculateCost", e, action, value)
     ELSE IF Negative(value) THEN PricingConfigError("calculateCost", e, action, value)
     ELSE IF config[1].calculate = "undefined" THEN TypeError("calculateCost", e, action, value)
     ELSE [Priced("calculateCost", e, action, value) EXCEPT
             !.kind = "number", !.cost = Calculate(config[1], value)]

calculateCost(e, action, value) ==
  /\ engines[e] # <<>>
  /\ priced' = CostOf(e, action, value)
  /\ UNCHANGED <<unit, sdk, run, balance, txs, call, now, ncalls, configs, engines>>

ConfigOf(e, action) ==
  LET config == GetProperty(engines[e][1], action)
  IN IF config = <<>> THEN PricingConfigError("getPricingConfig", e, action, NotANumber)
     ELSE [Priced("getPricingConfig", e, action, NotANumber) EXCEPT
             !.kind = "PricingConfig", !.config = config[1]]

getPricingConfig(e, action) ==
  /\ engines[e] # <<>>
  /\ priced' = ConfigOf(e, action)
  /\ UNCHANGED <<unit, sdk, run, balance, txs, call, now, ncalls, configs, engines>>

HasOf(e, action) ==
  [Priced("hasPricingConfig", e, action, NotANumber) EXCEPT
     !.kind = "boolean", !.has = HasProperty(engines[e][1], action)]

hasPricingConfig(e, action) ==
  /\ engines[e] # <<>>
  /\ priced' = HasOf(e, action)
  /\ UNCHANGED <<unit, sdk, run, balance, txs, call, now, ncalls, configs, engines>>

\* `this.config[action] = config`
setPricingConfig(e, action, config) ==
  /\ engines[e] # <<>>
  /\ configs' = [configs EXCEPT ![engines[e][1]][action] = <<config>>]
  /\ priced' = [Priced("setPricingConfig", e, action, NotANumber) EXCEPT
                  !.kind = "void", !.config = config]
  /\ UNCHANGED <<unit, sdk, run, balance, txs, call, now, ncalls, engines>>


Init ==
  /\ balance = [u \in UserIds |-> <<>>]
  /\ txs = [u \in UserIds |-> <<>>]
  /\ call = [c \in Clients |-> Idle]
  /\ now = 0
  /\ ncalls = 0
  /\ InitPricing
  /\ Unconfigured
  /\ WholeCredits
  /\ NotStarted

\* Date.now() advances.
Tick ==
  /\ now < MaxTime
  /\ now' = now + 1
  /\ UNCHANGED <<unit, sdk, run, pricingVars, balance, txs, call, ncalls>>

\* ------------------------------------------------------------ initializeUser
\* `startingCredits < 0` and `!Number.isFinite(startingCredits)` both false.
ValidStartingCredits(credits) == ~LessThan(credits, 0) /\ NumberIsFinite(credits)

\* Validation, id and timestamp generation, up to the EVAL being sent.
initializeUserCall(c, u, credits) ==
  /\ CanCall(c)
  /\ call' = [call EXCEPT ![c] =
       IF ValidUserId[u] /\ ValidStartingCredits(credits)
         THEN InFlight("initializeUser", u, credits.v, "user_initialized",
                       <<"starting_credits">>)
         ELSE Rejected("initializeUser", u)]
  /\ ncalls' = ncalls + 1
  /\ UNCHANGED <<unit, sdk, run, pricingVars, balance, txs, now>>

\* initializeUser(userId): `credits ?? this.defaultCredits`.
initializeUserCallDefault(c, u) == initializeUserCall(c, u, sdk[c].defaultCredits)

\* Variant of Exists: a stored balance of 0 counts as no ledger.
ExistsNonZero(u) == balance[u] # <<>> /\ balance[u][1] # 0

\* Variant of Exists: a ledger exists only once its log has an entry.
ExistsWithLog(u) == balance[u] # <<>> /\ txs[u] # <<>>

\* `local existing_balance = redis.call('GET', balance_key)` and
\* `if existing_balance then`: any stored value, 0 included, is truthy in Lua.
Exists(u) == balance[u] # <<>>

\* The Lua script runs at the store, and the caller builds its result.
initializeUserEval(c) ==
  LET cl == call[c]
      u == cl.user
  IN /\ cl.pc = "eval" /\ cl.op = "initializeUser"
     /\ IF Exists(u)
          THEN /\ call' = [call EXCEPT ![c] =
                    Done(c, TransactionResult(AlreadyInitialized, ToInteger(balance[u][1])))]
               /\ UNCHANGED <<unit, sdk, run, pricingVars, balance, txs>>
          ELSE /\ balance' = [balance EXCEPT ![u] = <<cl.amount>>]
               /\ txs' = [txs EXCEPT ![u] =
                    ZADD(txs[u], cl.timestamp, JSONStringify(TxOf(cl)))]
               /\ call' = [call EXCEPT ![c] =
                    Done(c, TransactionResult(cl.txId, ToInteger(cl.amount)))]
     /\ UNCHANGED <<unit, sdk, run, pricingVars, now, ncalls>>

\* redis.eval of initializeUser throws; the script had no effect.
initializeUserFault(c, error) ==
  LET cl == call[c]
  IN /\ cl.pc = "eval" /\ cl.op = "initializeUser"
     /\ call' = [call EXCEPT ![c] = Failed(c, TransactionError(cl.txId))]
     /\ UNCHANGED <<unit, sdk, run, pricingVars, balance, txs, now, ncalls>>

\* ------------------------------------------------------------ deduct
\* The text Lua's `..` produces for a number, as far as the caller's regular
\* expression can tell: an optional minus sign and the digits.
LuaToString(n) == [minus |-> n < 0, digits |-> IF n < 0 THEN -n ELSE n]

\* error.message.match(/INSUFFICIENT_CREDITS:?\s*(\d+(?:\.\d+)?)/) and
\* parseFloat(match?.[1] ?? '0'): the digits must follow the colon directly.
ParseAvailable(text) == IF text.minus THEN 0 ELSE text.digits

\* An error thrown by redis.eval, as far as the catch block can tell: does
\* its message include 'INSUFFICIENT_CREDITS', and what follows that text.
\* The script's own reply is `'INSUFFICIENT_CREDITS:' .. balance`.
ScriptError(bal) == [marker |-> TRUE, text |-> LuaToString(bal)]

\* The store failed for another reason.  The message is whatever the store
\* and the client library put in it: it may not hold the text of the marker,
\* or hold it (a message quoting the command quotes the script) followed by
\* something else than digits.
NoDigits == [minus |-> TRUE, digits |-> 0]
StoreFaults ==
  {[marker |-> FALSE, text |-> NoDigits], [marker |-> TRUE, text |-> NoDigits]}

\* The catch block of deduct.
deductCatch(cl, error) ==
  IF error.marker
    THEN InsufficientCreditsError(cl.amount, ParseAvailable(error.text))
    ELSE TransactionError(cl.txId)

\* Variant of InsufficientCredits: only an empty balance is refused.
InsufficientCreditsWhenEmpty(bal, amount) == bal <= 0

\* Variant of InsufficientCredits: the exact balance is refused too.
InsufficientCreditsInclusive(bal, amount) == bal <= amount

\* `if balance < amount then return redis.error_reply(...)`
InsufficientCredits(bal, amount) == bal < amount

\* Variant of ValidAmount: the amount 0 passes, as it does for initializeUser.
ValidAmountOrZero(amount) == ~LessThan(amount, 0) /\ NumberIsFinite(amount)

\* Variant of ValidAmount: only the sign of the amount is checked.
ValidAmountBySign(amount) == ~LessOrEqual(amount, 0)

\* `amount <= 0` and `!Number.isFinite(amount)` both false.
ValidAmount(amount) == ~LessOrEqual(amount, 0) /\ NumberIsFinite(amount)

\* `!action || typeof action !== 'string' || action.trim().length === 0` false.
ValidAction(action) ==
  CharsOf(action) # <<>> /\ Len(Trim(CharsOf(action))) # 0

deductCall(c, u, amount, action, metadata) ==
  /\ CanCall(c)
  /\ call' = [call EXCEPT ![c] =
       IF ValidUserId[u] /\ ValidAmount(amount) /\ ValidAction(action)
         THEN InFlight("deduct", u, amount.v, action, metadata)
         ELSE Rejected("deduct", u)]
  /\ ncalls' = ncalls + 1
  /\ UNCHANGED <<unit, sdk, run, pricingVars, balance, txs, now>>

deductEval(c) ==
  LET cl == call[c]
      u == cl.user
      bal == GetOrZero(u)
      new_balance == bal - cl.amount
  IN /\ cl.pc = "eval" /\ cl.op = "deduct"
     /\ IF InsufficientCredits(bal, cl.amount)
          THEN /\ call' = [call EXCEPT ![c] =
                    Done(c, deductCatch(cl, ScriptError(bal)))]
               /\ UNCHANGED <<unit, sdk, run, pricingVars, balance, txs>>
          ELSE /\ balance' = [balance EXCEPT ![u] = <<new_balance>>]
               /\ txs' = [txs EXCEPT ![u] =
                    ZADD(txs[u], cl.timestamp, JSONStringify(TxOf(cl)))]
               /\ call' = [call EXCEPT ![c] =
                    Done(c, TransactionResult(cl.txId, ToInteger(new_balance)))]
     /\ UNCHANGED <<unit, sdk, run, pricingVars, now, ncalls>>

\* redis.eval of deduct throws for a reason the script did not raise; the
\* script had no effect.
deductFault(c, error) ==
  LET cl == call[c]
  IN /\ cl.pc = "eval" /\ cl.op = "deduct"
     /\ call' = [call EXCEPT ![c] = Failed(c, deductCatch(cl, error))]
     /\ UNCHANGED <<unit, sdk, run, pricingVars, balance, txs, now, ncalls>>

\* ------------------------------------------------------------ add
addCall(c, u, amount, action, metadata) ==
  /\ CanCall(c)
  /\ call' = [call EXCEPT ![c] =
       IF ValidUserId[u] /\ ValidAmount(amount) /\ ValidAction(action)
         THEN InFlight("add", u, amount.v, action, metadata)
         ELSE Rejected("add", u)]
  /\ ncalls' = ncalls + 1
  /\ UNCHANGED <<unit, sdk, run, pricingVars, balance, txs, now>>

addEval(c) ==
  LET cl == call[c]
      u == cl.user
      new_balance == GetOrZero(u) + cl.amount
  IN /\ cl.pc = "eval" /\ cl.op = "add"
     /\ balance' = [balance EXCEPT ![u] = <<new_balance>>]
     /\ txs' = [txs EXCEPT ![u] =
          ZADD(txs[u], cl.timestamp, JSONStringify(TxOf(cl)))]
     /\ call' = [call EXCEPT ![c] =
          Done(c, TransactionResult(cl.txId, ToInteger(new_balance)))]
     /\ UNCHANGED <<unit, sdk, run, pricingVars, now, ncalls>>

\* redis.eval of add throws; the script had no effect.
addFault(c, error) ==
  LET cl == call[c]
  IN /\ cl.pc = "eval" /\ cl.op = "add"
     /\ call' = [call EXCEPT ![c] = Failed(c, TransactionError(cl.txId))]
     /\ UNCHANGED <<unit, sdk, run, pricingVars, balance, txs, now, ncalls>>

\* ------------------------------------------------------------ getBalance
\* Variant of getBalance: a balance that is missing is stored as 0 when read.
getBalanceCreating(c, u) ==
  /\ CanCall(c)
  /\ call' = [call EXCEPT ![c] =
       IF ValidUserId[u]
         THEN Finished("getBalance", u, 0, NumberResult(GetOrZero(u)))
         ELSE Rejected("getBalance", u)]
  /\ balance' = [balance EXCEPT ![u] = <<GetOrZero(u)>>]
  /\ ncalls' = ncalls + 1
  /\ UNCHANGED <<unit, sdk, run, pricingVars, txs, now>>

\* One GET; nothing is computed before it, so the call is one step.
getBalance(c, u) ==
  /\ CanCall(c)
  /\ call' = [call EXCEPT ![c] =
       IF ValidUserId[u]
         THEN Finished("getBalance", u, 0, NumberResult(GetOrZero(u)))
         ELSE Rejected("getBalance", u)]
  /\ ncalls' = ncalls + 1
  /\ UNCHANGED <<unit, sdk, run, pricingVars, balance, txs, now>>

\* ------------------------------------------------------------ getTransactions
\* The order of a sorted set: by score, and by member among the entries of
\* one score.  The members are JSON texts that begin with the id, so the id
\* decides.
MemberLess(m1, m2) ==
  \/ m1.id.ts < m2.id.ts
  \/ m1.id.ts = m2.id.ts /\ m1.id.rnd < m2.id.rnd
Precedes(e1, e2) ==
  \/ e1.score < e2.score
  \/ e1.score = e2.score /\ MemberLess(e1.member, e2.member)

\* The entries of a set, the last one in sorted-set order first.
RECURSIVE Descending(_)
Descending(entries) ==
  IF entries = {} THEN <<>>
  ELSE LET top == CHOOSE e \in entries :
                    \A f \in entries \ {e} : Precedes(f, e)
       IN <<top>> \o Descending(entries \ {top})

\* ZRANGE key start stop BYSCORE REV LIMIT offset count: with REV the first
\* bound is the highest score and the second the lowest; the entries with
\* stop <= score <= start, highest first, `count` of them from `offset` on
\* (all of them when count is negative).
ZRANGEByScoreRev(zset, start, stop, offset, count) ==
  LET inRange == {zset[i] : i \in {j \in 1..Len(zset) :
                     stop <= zset[j].score /\ zset[j].score <= start}}
      all == Descending(inRange)
      last == IF count < 0 \/ offset + count > Len(all)
                THEN Len(all) ELSE offset + count
  IN SubSeq(all, offset + 1, last)

\* One ZRANGE, then JSON.parse of every member; the call is one step.
getTransactions(c, u, options) ==
  LET limit == OrElse(options.limit, DefaultLimit)
      min == OrElse(options.startTime, 0)
      max == OrElse(options.endTime, now)
      results == ZRANGEByScoreRev(txs[u], min, max, 0, limit)
      transactions == [i \in 1..Len(results) |-> JSONParse(results[i].member)]
  IN /\ CanCall(c)
     /\ call' = [call EXCEPT ![c] =
          IF ValidUserId[u]
            THEN [Finished("getTransactions", u, 0,
                           TransactionList(transactions))
                    EXCEPT !.options = options]
            ELSE Rejected("getTransactions", u)]
     /\ ncalls' = ncalls + 1
     /\ UNCHANGED <<unit, sdk, run, pricingVars, balance, txs, now>>

\* ------------------------------------------------------------ verifyBalance
\* First round trip: GET of the cached balance.
verifyBalanceGet(c, u) ==
  /\ CanCall(c)
  /\ call' = [call EXCEPT ![c] =
       IF ValidUserId[u]
         THEN [Idle EXCEPT !.op = "verifyBalance", !.pc = "vb_zrange",
                           !.user = u, !.cached = GetOrZero(u)]
         ELSE Rejected("verifyBalance", u)]
  /\ ncalls' = ncalls + 1
  /\ UNCHANGED <<unit, sdk, run, pricingVars, balance, txs, now>>

\* Second round trip: ZRANGE of the whole log, then the comparison.  The
\* same code finishes rebuildBalance, which raises when the check fails.
verifyBalanceZrange(c) ==
  LET cl == call[c]
      calculated == calculateBalanceFromTransactions(cl.user)
      verification == BalanceVerification(cl.cached, calculated)
  IN /\ cl.pc = "vb_zrange"
     /\ call' = [call EXCEPT ![c] =
          IF cl.op = "verifyBalance" THEN Done(c, verification)
          ELSE IF verification.valid THEN Done(c, NumberResult(cl.correct))
          ELSE Done(c, BalanceVerificationError(cl.cached, calculated))]
     /\ UNCHANGED <<unit, sdk, run, pricingVars, balance, txs, now, ncalls>>

\* ------------------------------------------------------------ rebuildBalance
\* First round trip: ZRANGE of the whole log, summed by the caller.
rebuildBalanceZrange(c, u) ==
  /\ CanCall(c)
  /\ call' = [call EXCEPT ![c] =
       IF ValidUserId[u]
         THEN [Idle EXCEPT !.op = "rebuildBalance", !.pc = "rb_set",
                           !.user = u,
                           !.correct = calculateBalanceFromTransactions(u)]
         ELSE Rejected("rebuildBalance", u)]
  /\ ncalls' = ncalls + 1
  /\ UNCHANGED <<unit, sdk, run, pricingVars, balance, txs, now>>

\* Second round trip: SET of the value computed from the first.
rebuildBalanceSet(c) ==
  LET cl == call[c]
  IN /\ cl.pc = "rb_set"
     /\ balance' = [balance EXCEPT ![cl.user] = <<cl.correct>>]
     /\ call' = [call EXCEPT ![c].pc = "vb_get"]
     /\ UNCHANGED <<unit, sdk, run, pricingVars, txs, now, ncalls>>

\* Third round trip: the GET of the verifyBalance that checks the fix.
rebuildBalanceVerifyGet(c) ==
  LET cl == call[c]
  IN /\ cl.pc = "vb_get"
     /\ call' = [call EXCEPT ![c].pc = "vb_zrange",
                             ![c].cached = GetOrZero(cl.user)]
     /\ UNCHANGED <<unit, sdk, run, pricingVars, balance, txs, now, ncalls>>

\* ------------------------------------------------------------ drawn ids
\* The three mutating calls up to their EVAL, with the outcome of
\* Math.random() as an input.
initializeUserCallDrawn(c, u, credits, random) ==
  /\ CanCall(c)
  /\ call' = [call EXCEPT ![c] =
       IF ValidUserId[u] /\ ValidStartingCredits(credits)
         THEN InFlightDrawn("initializeUser", u, credits.v, "user_initialized",
                            <<"starting_credits">>, random)
         ELSE Rejected("initializeUser", u)]
  /\ ncalls' = ncalls + 1
  /\ UNCHANGED <<unit, sdk, run, pricingVars, balance, txs, now>>

deductCallDrawn(c, u, amount, action, metadata, random) ==
  /\ CanCall(c)
  /\ call' = [call EXCEPT ![c] =
       IF ValidUserId[u] /\ ValidAmount(amount) /\ ValidAction(action)
         THEN InFlightDrawn("deduct", u, amount.v, action, metadata, random)
         ELSE Rejected("deduct", u)]
  /\ ncalls' = ncalls + 1
  /\ UNCHANGED <<unit, sdk, run, pricingVars, balance, txs, now>>

addCallDrawn(c, u, amount, action, metadata, random) ==
  /\ CanCall(c)
  /\ call' = [call EXCEPT ![c] =
       IF ValidUserId[u] /\ ValidAmount(amount) /\ ValidAction(action)
         THEN InFlightDrawn("add", u, amount.v, action, metadata, random)
         ELSE Rejected("add", u)]
  /\ ncalls' = ncalls + 1
  /\ UNCHANGED <<unit, sdk, run, pricingVars, balance, txs, now>>

\* ------------------------------------------------------------ lost responses
\* redis.eval throws although the script ran to its end: the request reached
\* the store and the response did not reach the caller (a timeout, a dropped
\* connection).  The catch block sees an error like any other.
initializeUserLost(c, error) ==
  LET cl == call[c]
      u == cl.user
  IN /\ cl.pc = "eval" /\ cl.op = "initializeUser"
     /\ ~Exists(u)
     /\ balance' = [balance EXCEPT ![u] = <<cl.amount>>]
     /\ txs' = [txs EXCEPT ![u] =
          ZADD(txs[u], cl.timestamp, JSONStringify(TxOf(cl)))]
     /\ call' = [call EXCEPT ![c] = Failed(c, TransactionError(cl.txId))]
     /\ UNCHANGED <<unit, sdk, run, pricingVars, now, ncalls>>

deductLost(c, error) ==
  LET cl == call[c]
      u == cl.user
      bal == GetOrZero(u)
  IN /\ cl.pc = "eval" /\ cl.op = "deduct"
     /\ ~InsufficientCredits(bal, cl.amount)
     /\ balance' = [balance EXCEPT ![u] = <<bal - cl.amount>>]
     /\ txs' = [txs EXCEPT ![u] =
          ZADD(txs[u], cl.timestamp, JSONStringify(TxOf(cl)))]
     /\ call' = [call EXCEPT ![c] = Failed(c, deductCatch(cl, error))]
     /\ UNCHANGED <<unit, sdk, run, pricingVars, now, ncalls>>

addLost(c, error) ==
  LET cl == call[c]
      u == cl.user
  IN /\ cl.pc = "eval" /\ cl.op = "add"
     /\ balance' = [balance EXCEPT ![u] = <<GetOrZero(u) + cl.amount>>]
     /\ txs' = [txs EXCEPT ![u] =
          ZADD(txs[u], cl.timestamp, JSONStringify(TxOf(cl)))]
     /\ call' = [call EXCEPT ![c] = Failed(c, TransactionError(cl.txId))]
     /\ UNCHANGED <<unit, sdk, run, pricingVars, now, ncalls>>

\* ------------------------------------------------------------ read faults
\* The error the store client throws when a command fails; the read
\* operations have no catch block, so it leaves the call as it is.
StoreError == [NoResult EXCEPT !.kind = "Error"]
Thrown(op, u) == [Finished(op, u, 0, StoreError) EXCEPT !.fault = TRUE]

\* redis.get of getBalance throws.
getBalanceFault(c, u) ==
  /\ CanCall(c)
  /\ ValidUserId[u]
  /\ call' = [call EXCEPT ![c] = Thrown("getBalance", u)]
  /\ ncalls' = ncalls + 1
  /\ UNCHANGED <<unit, sdk, run, pricingVars, balance, txs, now>>

\* redis.zrange of getTransactions throws.
getTransactionsFault(c, u, options) ==
  /\ CanCall(c)
  /\ ValidUserId[u]
  /\ call' = [call EXCEPT ![c] =
       [Thrown("getTransactions", u) EXCEPT !.options = options]]
  /\ ncalls' = ncalls + 1
  /\ UNCHANGED <<unit, sdk, run, pricingVars, balance, txs, now>>

\* redis.get of verifyBalance throws.
verifyBalanceGetFault(c, u) ==
  /\ CanCall(c)
  /\ ValidUserId[u]
  /\ call' = [call EXCEPT ![c] = Thrown("verifyBalance", u)]
  /\ ncalls' = ncalls + 1
  /\ UNCHANGED <<unit, sdk, run, pricingVars, balance, txs, now>>

\* redis.zrange of rebuildBalance throws.
rebuildBalanceZrangeFault(c, u) ==
  /\ CanCall(c)
  /\ ValidUserId[u]
  /\ call' = [call EXCEPT ![c] = Thrown("rebuildBalance", u)]
  /\ ncalls' = ncalls + 1
  /\ UNCHANGED <<unit, sdk, run, pricingVars, balance, txs, now>>

\* A later round trip of verifyBalance or rebuildBalance throws: the ZRANGE
\* of the sum, the SET of rebuildBalance, or the GET of its verification.
roundTripFault(c) ==
  /\ call[c].pc \in {"vb_zrange", "rb_set", "vb_get"}
  /\ call' = [call EXCEPT ![c] = Failed(c, StoreError)]
  /\ UNCHANGED <<unit, sdk, run, pricingVars, balance, txs, now, ncalls>>

\* ------------------------------------------------------------ reconciliation run
\* The process that runs reconcileAll uses the SDK as client c3.
Reconciler == "c3"

\* The user id of the iteration the loop is in.
UserId == run.userIds[run.index + 1]

\* `const userIds = await getAllUserIds(); stats.total = userIds.length`
reconcileAllStart(userIds) ==
  /\ run.pc = "idle"
  /\ run' = [NoStats EXCEPT !.pc = IF userIds = <<>> THEN "finished" ELSE "loop",
                            !.userIds = userIds, !.total = Len(userIds)]
  /\ UNCHANGED <<unit, sdk, pricingVars, balance, txs, call, now, ncalls>>

\* The result of the iteration's call has not come back yet: the last call
\* the client made is that of an earlier iteration, or there is none.
NotCalledYet ==
  \/ call[Reconciler].pc = "idle"
  \/ call[Reconciler].pc = "done" /\ call[Reconciler].user # UserId

\* `const verification = await credits.verifyBalance(userId)`: the first
\* round trip of the call, or the failure of it.
reconcileAllVerify ==
  /\ run.pc = "loop" /\ NotCalledYet
  /\ verifyBalanceGet(Reconciler, UserId)

reconcileAllVerifyFault ==
  /\ run.pc = "loop" /\ NotCalledYet
  /\ verifyBalanceGetFault(Reconciler, UserId)

\* The verification came back.
Verification ==
  /\ run.pc = "loop"
  /\ call[Reconciler].pc = "done"
  /\ call[Reconciler].user = UserId
  /\ call[Reconciler].op = "verifyBalance"
  /\ call[Reconciler].result.kind = "BalanceVerification"

\* `if (!verification.valid) { ... await credits.rebuildBalance(userId)`:
\* the first round trip of the call, or the failure of it.
reconcileAllRebuild ==
  /\ Verification /\ ~call[Reconciler].result.valid
  /\ rebuildBalanceZrange(Reconciler, UserId)

reconcileAllRebuildFault ==
  /\ Verification /\ ~call[Reconciler].result.valid
  /\ rebuildBalanceZrangeFault(Reconciler, UserId)

\* The counter the iteration ends with: `stats.verified++` after a valid
\* verification, `stats.fixed++` after rebuildBalance returned, and
\* `stats.errors++` in the catch block, whatever was thrown.
Counted ==
  LET cl == call[Reconciler]
  IN IF cl.op = "verifyBalance" /\ cl.result.kind = "BalanceVerification"
       THEN "verified"
     ELSE IF cl.op = "rebuildBalance" /\ cl.result.kind = "number"
       THEN "fixed"
     ELSE "errors"

\* Variant of reconcileAllNext: what is thrown for one user ends the loop.
reconcileAllNextOrStop ==
  /\ run.pc = "loop"
  /\ call[Reconciler].pc = "done"
  /\ call[Reconciler].user = UserId
  /\ ~(Verification /\ ~call[Reconciler].result.valid)
  /\ run' = [run EXCEPT
       !.pc = IF run.index + 1 = Len(run.userIds) \/ Counted = "errors"
                THEN "finished" ELSE "loop",
       !.index = run.index + 1,
       !.verified = IF Counted = "verified" THEN run.verified + 1 ELSE run.verified,
       !.fixed = IF Counted = "fixed" THEN run.fixed + 1 ELSE run.fixed,
       !.errors = IF Counted = "errors" THEN run.errors + 1 ELSE run.errors]
  /\ UNCHANGED <<unit, sdk, pricingVars, balance, txs, call, now, ncalls>>

\* The iteration ends: the call of the iteration has returned or thrown, and
\* nothing more is called for its user; one counter goes up and the loop
\* goes to the next user id, or `return stats` after the last.
reconcileAllNext ==
  /\ run.pc = "loop"
  /\ call[Reconciler].pc = "done"
  /\ call[Reconciler].user = UserId
  /\ ~(Verification /\ ~call[Reconciler].result.valid)
  /\ run' = [run EXCEPT
       !.pc = IF run.index + 1 = Len(run.userIds) THEN "finished" ELSE "loop",
       !.index = run.index + 1,
       !.verified = IF Counted = "verified" THEN run.verified + 1 ELSE run.verified,
       !.fixed = IF Counted = "fixed" THEN run.fixed + 1 ELSE run.fixed,
       !.errors = IF Counted = "errors" THEN run.errors + 1 ELSE run.errors]
  /\ UNCHANGED <<unit, sdk, pricingVars, balance, txs, call, now, ncalls>>

\* ------------------------------------------------------------ specification
\* Every operation on the balance, on every user, with every argument, at
\* one reading of the clock.
Budget == ncalls < MaxCalls

Next ==
  \/ \E c \in Callers, u \in Users, credits \in Credits :
       Budget /\ initializeUserCall(c, u, Num(credits))
  \/ \E c \in Callers : initializeUserEval(c)
  \/ \E c \in Callers, u \in Users, amount \in Amounts, action \in ActionTags,
        metadata \in Metadatas :
       Budget /\ deductCall(c, u, Num(amount), action, metadata)
  \/ \E c \in Callers : deductEval(c)
  \/ \E c \in Callers, u \in Users, amount \in Amounts, action \in ActionTags,
        metadata \in Metadatas :
       Budget /\ addCall(c, u, Num(amount), action, metadata)
  \/ \E c \in Callers : addEval(c)
  \/ \E c \in Callers, u \in Users : Budget /\ getBalance(c, u)
  \/ \E c \in Callers, u \in Users : Budget /\ verifyBalanceGet(c, u)
  \/ \E c \in Callers : verifyBalanceZrange(c)
  \/ \E c \in Callers, u \in Users : Budget /\ rebuildBalanceZrange(c, u)
  \/ \E c \in Callers : rebuildBalanceSet(c)
  \/ \E c \in Callers : rebuildBalanceVerifyGet(c)

Spec == Init /\ [][Next]_vars

\* The three mutating operations only, issued by any client on any user.
LedgerBudget == ncalls < MaxLedgerCalls

NextLedger ==
  \/ \E c \in Clients, u \in Users, credits \in {0, 2} :
       LedgerBudget /\ initializeUserCall(c, u, Num(credits))
  \/ \E c \in Clients : initializeUserEval(c)
  \/ \E c \in Clients, u \in Users, amount \in {1, 2} :
       LedgerBudget /\ deductCall(c, u, Num(amount), "use", Undefined)
  \/ \E c \in Clients : deductEval(c)
  \/ \E c \in Clients, u \in Users, amount \in {1, 2} :
       LedgerBudget /\ addCall(c, u, Num(amount), "use", Undefined)
  \/ \E c \in Clients : addEval(c)

SpecLedger == Init /\ [][NextLedger]_vars

\* Contention on one ledger: user u1 was initialized with some balance and
\* nothing else happened; then every client issues at most one deduct, all
\* of the same amount.
GenesisId == [tag |-> "tx", ts |-> 0, rnd |-> 0]

InitDeduct ==
  \E B \in 0..MaxBalance :
    /\ balance = [u \in UserIds |-> IF u = "u1" THEN <<B>> ELSE <<>>]
    /\ txs = [u \in UserIds |->
         IF u = "u1"
           THEN ZADD(<<>>, 0, JSONStringify(Transaction(GenesisId, B,
                        "user_initialized", <<"starting_credits">>, 0)))
           ELSE <<>>]
    /\ call = [c \in Clients |-> Idle]
    /\ now = 0
    /\ ncalls = 1
    /\ InitPricing
    /\ Unconfigured
    /\ WholeCredits
    /\ NotStarted

SameAmount(op, amount) ==
  \A d \in Clients : call[d].op = op => call[d].amount = amount

NextDeduct ==
  \/ \E c \in Clients, amount \in {1, 2} :
       /\ call[c].pc = "idle"
       /\ SameAmount("deduct", amount)
       /\ deductCall(c, "u1", Num(amount), "use", Undefined)
  \/ \E c \in Clients : deductEval(c)

SpecDeduct == InitDeduct /\ [][NextDeduct]_vars

\* Contention on one absent ledger: every client issues at most one
\* initializeUser, all with the same starting balance, at any times.
NextGenesis ==
  \/ Tick
  \/ \E c \in Clients, credits \in {0, 1, 2} :
       /\ call[c].pc = "idle"
       /\ SameAmount("initializeUser", credits)
       /\ initializeUserCall(c, "u1", Num(credits))
  \/ \E c \in Clients : initializeUserEval(c)

SpecGenesis == Init /\ [][NextGenesis]_vars

\* Reconciliation running beside the mutations of one ledger: two clients
\* work on user u1 with unit amounts.
ReconcileBudget == ncalls < MaxReconcileCalls

NextReconcile ==
  \/ \E c \in Callers : ReconcileBudget /\ initializeUserCall(c, "u1", Num(1))
  \/ \E c \in Callers : initializeUserEval(c)
  \/ \E c \in Callers : ReconcileBudget /\ deductCall(c, "u1", Num(1), "use", Undefined)
  \/ \E c \in Callers : deductEval(c)
  \/ \E c \in Callers : ReconcileBudget /\ addCall(c, "u1", Num(1), "use", Undefined)
  \/ \E c \in Callers : addEval(c)
  \/ \E c \in Callers : ReconcileBudget /\ verifyBalanceGet(c, "u1")
  \/ \E c \in Callers : verifyBalanceZrange(c)
  \/ \E c \in Callers : ReconcileBudget /\ rebuildBalanceZrange(c, "u1")
  \/ \E c \in Callers : rebuildBalanceSet(c)
  \/ \E c \in Callers : rebuildBalanceVerifyGet(c)

SpecReconcile == Init /\ [][NextReconcile]_vars

\* Reconciliation of a ledger in any state: the log of u1 holds any
\* transactions, the cached balance holds any value or is absent (set from
\* outside the SDK); then verifyBalance and rebuildBalance are called, and
\* nothing is written while a call that writes or verifies is running.
OpeningAmounts == {-10, 50, 100}
TamperedBalances == {<<>>, <<-5>>, <<0>>, <<139>>, <<140>>}

OpeningTx(amounts, i) ==
  Transaction([tag |-> "tx", ts |-> 0, rnd |-> -i], amounts[i],
              IF i = 1 /\ amounts[i] >= 0 THEN "user_initialized" ELSE "use",
              Undefined, 0)

RECURSIVE OpeningLog(_, _)
OpeningLog(amounts, n) ==
  IF n = 0 THEN <<>>
  ELSE ZADD(OpeningLog(amounts, n - 1), 0, JSONStringify(OpeningTx(amounts, n)))

InitRoundTrip ==
  \E n \in 0..MaxLogLen : \E amounts \in [1..n -> OpeningAmounts] :
    \E cache \in TamperedBalances :
      /\ balance = [u \in UserIds |-> IF u = "u1" THEN cache ELSE <<>>]
      /\ txs = [u \in UserIds |->
           IF u = "u1" THEN OpeningLog(amounts, n) ELSE <<>>]
      /\ call = [c \in Clients |-> Idle]
      /\ now = 0
      /\ ncalls = 0
      /\ InitPricing
      /\ Unconfigured
      /\ WholeCredits
      /\ NotStarted

RoundTripBudget == ncalls < MaxRoundTripCalls
Rebuilding == \E c \in Clients : call[c].op = "rebuildBalance" /\ call[c].pc # "done"

NextRoundTrip ==
  \/ \E c \in Clients :
       RoundTripBudget /\ ~Rebuilding /\ verifyBalanceGet(c, "u1")
  \/ \E c \in Clients : verifyBalanceZrange(c)
  \/ \E c \in Clients :
       RoundTripBudget /\ (\A d \in Clients : CanCall(d))
                       /\ rebuildBalanceZrange(c, "u1")
  \/ \E c \in Clients : rebuildBalanceSet(c)
  \/ \E c \in Clients : rebuildBalanceVerifyGet(c)

SpecRoundTrip == InitRoundTrip /\ [][NextRoundTrip]_vars

\* Argument validation: each of two clients makes at most one call, of any
\* operation, with any user id, number and action string, valid or not.
FirstCall(c) == call[c].pc = "idle"

NextValidation ==
  \/ \E c \in Callers, u \in UserIds, credits \in Numbers :
       FirstCall(c) /\ initializeUserCall(c, u, credits)
  \/ \E c \in Callers : initializeUserEval(c)
  \/ \E c \in Callers, u \in UserIds, amount \in Numbers,
        action \in ActionStrings :
       FirstCall(c) /\ deductCall(c, u, amount, action, Undefined)
  \/ \E c \in Callers : deductEval(c)
  \/ \E c \in Callers, u \in UserIds, amount \in Numbers,
        action \in ActionStrings :
       FirstCall(c) /\ addCall(c, u, amount, action, Undefined)
  \/ \E c \in Callers : addEval(c)
  \/ \E c \in Callers, u \in UserIds : FirstCall(c) /\ getBalance(c, u)
  \/ \E c \in Callers, u \in UserIds :
       FirstCall(c) /\ getTransactions(c, u, NoOptions)
  \/ \E c \in Callers, u \in UserIds : FirstCall(c) /\ verifyBalanceGet(c, u)
  \/ \E c \in Callers : verifyBalanceZrange(c)
  \/ \E c \in Callers, u \in UserIds :
       FirstCall(c) /\ rebuildBalanceZrange(c, u)
  \/ \E c \in Callers : rebuildBalanceSet(c)
  \/ \E c \in Callers : rebuildBalanceVerifyGet(c)

SpecValidation == Init /\ [][NextValidation]_vars

\* The mutating operations on one ledger with a store that may fail any
\* script.
FaultBudget == ncalls < MaxFaultCalls

NextFault ==
  \/ \E c \in Callers : FaultBudget /\ initializeUserCall(c, "u1", Num(1))
  \/ \E c \in Callers : initializeUserEval(c)
  \/ \E c \in Callers, error \in StoreFaults : initializeUserFault(c, error)
  \/ \E c \in Callers, amount \in {1, 2} :
       FaultBudget /\ deductCall(c, "u1", Num(amount), "use", Undefined)
  \/ \E c \in Callers : deductEval(c)
  \/ \E c \in Callers, error \in StoreFaults : deductFault(c, error)
  \/ \E c \in Callers : FaultBudget /\ addCall(c, "u1", Num(1), "use", Undefined)
  \/ \E c \in Callers : addEval(c)
  \/ \E c \in Callers, error \in StoreFaults : addFault(c, error)

SpecFault == Init /\ [][NextFault]_vars

\* The history of one ledger: two clients initialize, debit and credit
\* user u1 while the clock advances, and query the log with and without
\* time bounds.
HistoryBudget == ncalls < MaxHistoryCalls
Optional(S) == {<<>>} \cup {<<x>> : x \in S}

NextHistory ==
  \/ Tick
  \/ \E c \in Callers : HistoryBudget /\ initializeUserCall(c, "u1", Num(2))
  \/ \E c \in Callers : initializeUserEval(c)
  \/ \E c \in Callers : HistoryBudget /\ deductCall(c, "u1", Num(1), "use", Undefined)
  \/ \E c \in Callers : deductEval(c)
  \/ \E c \in Callers : HistoryBudget /\ addCall(c, "u1", Num(1), "use", Undefined)
  \/ \E c \in Callers : addEval(c)
  \/ \E c \in Callers, limit \in Optional({-1, 0, 1, 2}),
        startTime \in Optional(0..MaxTime), endTime \in Optional(0..MaxTime) :
       /\ HistoryBudget
       /\ getTransactions(c, "u1", Options(limit, startTime, endTime))

SpecHistory == Init /\ [][NextHistory]_vars

\* Pricing engines: two engines are constructed, with the default table or
\* with the caller's table, their tables are changed and queried.
PricingValues == {Decimal(-1, 1), Decimal(0, 1), Decimal(3, 1), NotANumber}

NextPricing ==
  \/ \E e \in Engines, customConfig \in {<<>>, <<"customConfig">>} :
       NewPricingEngine(e, customConfig)
  \/ \E e \in Engines, action \in PricingActions, value \in PricingValues :
       calculateCost(e, action, value)
  \/ \E e \in Engines, action \in PricingActions : getPricingConfig(e, action)
  \/ \E e \in Engines, action \in PricingActions : hasPricingConfig(e, action)
  \/ \E e \in Engines, action \in {"video_generation", "image_upscale"},
        config \in {Fixed(7), CeilTimes(2)} :
       setPricingConfig(e, action, config)

SpecPricing == Init /\ [][NextPricing]_vars

\* Callers choose the action: every client makes one call on user u1, an
\* initializeUser or a deduct or add of one credit whose action is any
\* accepted string, the action of the genesis transaction included.
CallerActions == {"use", "user_initialized"}

NextTagged ==
  \/ \E c \in Clients, credits \in {0, 1} :
       FirstCall(c) /\ initializeUserCall(c, "u1", Num(credits))
  \/ \E c \in Clients : initializeUserEval(c)
  \/ \E c \in Clients, action \in CallerActions :
       FirstCall(c) /\ deductCall(c, "u1", Num(1), action, Undefined)
  \/ \E c \in Clients : deductEval(c)
  \/ \E c \in Clients, action \in CallerActions :
       FirstCall(c) /\ addCall(c, "u1", Num(1), action, Undefined)
  \/ \E c \in Clients : addEval(c)

SpecTagged == Init /\ [][NextTagged]_vars

\* Amounts that are not integers: the amounts are counted in halves of a
\* credit, which doubles hold exactly.  Every client makes one call on user
\* u1 with an amount of 0.5, 1 or 1.5 credits.
HalfAmounts == {1, 2, 3}

NextFraction ==
  \/ \E c \in Clients, credits \in HalfAmounts :
       FirstCall(c) /\ initializeUserCall(c, "u1", Num(credits))
  \/ \E c \in Clients : initializeUserEval(c)
  \/ \E c \in Clients, amount \in HalfAmounts :
       FirstCall(c) /\ deductCall(c, "u1", Num(amount), "use", Undefined)
  \/ \E c \in Clients : deductEval(c)
  \/ \E c \in Clients, amount \in HalfAmounts :
       FirstCall(c) /\ addCall(c, "u1", Num(amount), "use", Undefined)
  \/ \E c \in Clients : addEval(c)

InitFraction ==
  /\ balance = [u \in UserIds |-> <<>>]
  /\ txs = [u \in UserIds |-> <<>>]
  /\ call = [c \in Clients |-> Idle]
  /\ now = 0
  /\ ncalls = 0
  /\ InitPricing
  /\ Unconfigured
  /\ HalfCredits
  /\ NotStarted

SpecFraction == InitFraction /\ [][NextFraction]_vars

\* The read operations with a store that may fail any command: every client
\* makes one call on user u1, whose ledger one of them may initialize.
NextReadFault ==
  \/ \E c \in Clients : FirstCall(c) /\ initializeUserCall(c, "u1", Num(1))
  \/ \E c \in Clients : initializeUserEval(c)
  \/ \E c \in Clients : FirstCall(c) /\ getBalance(c, "u1")
  \/ \E c \in Clients : FirstCall(c) /\ getBalanceFault(c, "u1")
  \/ \E c \in Clients : FirstCall(c) /\ getTransactions(c, "u1", NoOptions)
  \/ \E c \in Clients : FirstCall(c) /\ getTransactionsFault(c, "u1", NoOptions)
  \/ \E c \in Clients : FirstCall(c) /\ verifyBalanceGet(c, "u1")
  \/ \E c \in Clients : FirstCall(c) /\ verifyBalanceGetFault(c, "u1")
  \/ \E c \in Clients : verifyBalanceZrange(c)
  \/ \E c \in Clients : FirstCall(c) /\ rebuildBalanceZrange(c, "u1")
  \/ \E c \in Clients : FirstCall(c) /\ rebuildBalanceZrangeFault(c, "u1")
  \/ \E c \in Clients : rebuildBalanceSet(c)
  \/ \E c \in Clients : rebuildBalanceVerifyGet(c)
  \/ \E c \in Clients : roundTripFault(c)

SpecReadFault == Init /\ [][NextReadFault]_vars

\* Metered usage: the built-in table prices one usage, written in
\* hundredths of a unit or unbounded, on either engine.
MaxUsage == 550
UsageValues == {Decimal(n, 100) : n \in 0..MaxUsage} \cup {NotANumber, Infinite}
MeteredActions == {"video_generation", "training_job"}

NextCost ==
  \/ \E e \in Engines : NewPricingEngine(e, <<>>)
  \/ \E e \in Engines, action \in MeteredActions, value \in UsageValues :
       priced.op = "none" /\ calculateCost(e, action, value)

SpecCost == Init /\ [][NextCost]_vars

\* Verification beside the mutations of one ledger: every client makes one
\* call on user u1, a mutation or a verifyBalance, and nothing else writes.
NextVerify ==
  \/ \E c \in Clients : FirstCall(c) /\ initializeUserCall(c, "u1", Num(2))
  \/ \E c \in Clients : initializeUserEval(c)
  \/ \E c \in Clients : FirstCall(c) /\ deductCall(c, "u1", Num(1), "use", Undefined)
  \/ \E c \in Clients : deductEval(c)
  \/ \E c \in Clients : FirstCall(c) /\ addCall(c, "u1", Num(1), "use", Undefined)
  \/ \E c \in Clients : addEval(c)
  \/ \E c \in Clients : FirstCall(c) /\ verifyBalanceGet(c, "u1")
  \/ \E c \in Clients : verifyBalanceZrange(c)

SpecVerify == Init /\ [][NextVerify]_vars


\* One repair beside the mutations of one ledger: client c1 makes one call,
\* a rebuildBalance of user u1, while the other clients initialize, debit
\* and credit u1 with unit amounts.
NextRebuild ==
  \/ \E c \in Callers \ {"c1"} :
       ReconcileBudget /\ initializeUserCall(c, "u1", Num(1))
  \/ \E c \in Callers : initializeUserEval(c)
  \/ \E c \in Callers \ {"c1"} :
       ReconcileBudget /\ deductCall(c, "u1", Num(1), "use", Undefined)
  \/ \E c \in Callers : deductEval(c)
  \/ \E c \in Callers \ {"c1"} :
       ReconcileBudget /\ addCall(c, "u1", Num(1), "use", Undefined)
  \/ \E c \in Callers : addEval(c)
  \/ FirstCall("c1") /\ rebuildBalanceZrange("c1", "u1")
  \/ rebuildBalanceSet("c1")
  \/ rebuildBalanceVerifyGet("c1")
  \/ verifyBalanceZrange("c1")

SpecRebuild == Init /\ [][NextRebuild]_vars

\* Transaction ids: each of two clients makes one mutating call on either user,
\* at either reading of the clock, and Math.random() yields either of two
\* values in each of the processes.
RandomDraws == {0, 1}

NextDrawn ==
  \/ Tick
  \/ \E c \in Callers, u \in Users, random \in RandomDraws :
       FirstCall(c) /\ initializeUserCallDrawn(c, u, Num(2), random)
  \/ \E c \in Callers : initializeUserEval(c)
  \/ \E c \in Callers, u \in Users, amount \in {1, 2}, random \in RandomDraws :
       FirstCall(c) /\ deductCallDrawn(c, u, Num(amount), "use", Undefined, random)
  \/ \E c \in Callers : deductEval(c)
  \/ \E c \in Callers, u \in Users, amount \in {1, 2}, random \in RandomDraws :
       FirstCall(c) /\ addCallDrawn(c, u, Num(amount), "use", Undefined, random)
  \/ \E c \in Callers : addEval(c)

SpecDrawn == Init /\ [][NextDrawn]_vars

\* The mutating operations on one ledger with a store whose scripts may
\* fail, and whose responses may be lost: every client makes one call on
\* user u1.
NextLost ==
  \/ \E c \in Clients : FirstCall(c) /\ initializeUserCall(c, "u1", Num(2))
  \/ \E c \in Clients : initializeUserEval(c)
  \/ \E c \in Clients, error \in StoreFaults : initializeUserFault(c, error)
  \/ \E c \in Clients, error \in StoreFaults : initializeUserLost(c, error)
  \/ \E c \in Clients, amount \in {1, 2} :
       FirstCall(c) /\ deductCall(c, "u1", Num(amount), "use", Undefined)
  \/ \E c \in Clients : deductEval(c)
  \/ \E c \in Clients, error \in StoreFaults : deductFault(c, error)
  \/ \E c \in Clients, error \in StoreFaults : deductLost(c, error)
  \/ \E c \in Clients : FirstCall(c) /\ addCall(c, "u1", Num(1), "use", Undefined)
  \/ \E c \in Clients : addEval(c)
  \/ \E c \in Clients, error \in StoreFaults : addFault(c, error)
  \/ \E c \in Clients, error \in StoreFaults : addLost(c, error)

SpecLost == Init /\ [][NextLost]_vars

\* Configured defaults: every client was built with its own options, a
\* default of 0, 1 or 2 credits, one that is not a number, or none; each
\* makes one call of initializeUser without a starting balance, or reads a
\* balance.
ConfiguredDefaults == Optional({Num(0), Num(1), Num(2), NaN})

InitConfigured ==
  \E options \in [Clients -> ConfiguredDefaults] :
    /\ balance = [u \in UserIds |-> <<>>]
    /\ txs = [u \in UserIds |-> <<>>]
    /\ call = [c \in Clients |-> Idle]
    /\ now = 0
    /\ ncalls = 0
    /\ InitPricing
    /\ WholeCredits
    /\ NotStarted
    /\ sdk = [c \in Clients |-> NewCreditsSDK(options[c])]

NextConfigured ==
  \/ \E c \in Callers, u \in Users : FirstCall(c) /\ initializeUserCallDefault(c, u)
  \/ \E c \in Callers : initializeUserEval(c)
  \/ \E c \in Callers, u \in Users : FirstCall(c) /\ getBalance(c, u)

SpecConfigured == InitConfigured /\ [][NextConfigured]_vars

\* Assignments to a pricing table under any property name: one engine with
\* the default table and one with the caller's; configurations are set for
\* an action of the table, for a new action and for `__proto__`, and every
\* name is looked up.
NextAssigned ==
  \/ NewPricingEngine("E1", <<>>)
  \/ NewPricingEngine("E2", <<"customConfig">>)
  \/ \E e \in Engines, action \in {"video_generation", "image_upscale", "__proto__"},
        config \in {Fixed(7), CeilTimes(2)} :
       setPricingConfig(e, action, config)
  \/ \E e \in Engines, action \in PropertyNames : hasPricingConfig(e, action)
  \/ \E e \in Engines, action \in PropertyNames : getPricingConfig(e, action)
  \/ \E e \in Engines, action \in {"image_upscale", "__proto__", "rate"} :
       calculateCost(e, action, Decimal(3, 1))

SpecAssigned == Init /\ [][NextAssigned]_vars

\* A reconciliation run beside the mutations of the ledgers: the run goes
\* through a list of user ids (none, one, two, or one that is rejected
\* followed by one that is accepted) with a store that may fail any command,
\* while two other clients make one mutating call each.
UserIdLists == {<<>>, <<"u1">>, <<"u1", "u2">>, <<"", "u1">>}

NextRun ==
  \/ \E userIds \in UserIdLists : reconcileAllStart(userIds)
  \/ reconcileAllVerify
  \/ reconcileAllVerifyFault
  \/ verifyBalanceZrange(Reconciler)
  \/ reconcileAllRebuild
  \/ reconcileAllRebuildFault
  \/ rebuildBalanceSet(Reconciler)
  \/ rebuildBalanceVerifyGet(Reconciler)
  \/ roundTripFault(Reconciler)
  \/ reconcileAllNext
  \/ \E c \in Callers, u \in Users : FirstCall(c) /\ addCall(c, u, Num(1), "use", Undefined)
  \/ \E c \in Callers : addEval(c)

SpecRun == Init /\ [][NextRun]_vars

\* ------------------------------------------------------------ properties
Returned(c) == call[c].pc = "done"
Succeeded(op) ==
  {c \in Clients : /\ call[c].op = op /\ Returned(c)
                   /\ call[c].result.kind = "TransactionResult"
                   /\ call[c].result.txId.tag = "tx"}
Quiescent == \A c \in Clients : call[c].pc \in {"idle", "done"}
Log(u) == [i \in 1..Len(txs[u]) |-> JSONParse(txs[u][i].member)]
Entries(u, P(_)) == {i \in 1..Len(txs[u]) : P(Log(u)[i])}
IsGenesis(tx) == tx.action = "user_initialized"

\* C1 (no overdraft): with opening balance B and M concurrent deducts of the
\* same amount amt and nothing else, at most B \div amt calls succeed, every
\* other returned call failed with InsufficientCreditsError, each successful
\* call took amt, and once all have returned the balance is B - amt * successes.
C1_NoOverdraft ==
  LET B == Log("u1")[1].amount
      ok == Succeeded("deduct")
  IN \A amt \in {1, 2} :
       SameAmount("deduct", amt) =>
         /\ Cardinality(ok) <= B \div amt
         /\ \A c \in Clients : Returned(c) /\ c \notin ok =>
              call[c].result.kind = "InsufficientCreditsError"
         /\ GetOrZero("u1") >= 0
         /\ Quiescent => GetOrZero("u1") = B - amt * Cardinality(ok)

\* Three deducts of 1 against an opening balance of 2: two succeeded, one failed.
C1_Witness ==
  /\ Log("u1")[1].amount = 2
  /\ \A c \in Clients : Returned(c) /\ call[c].amount = 1
  /\ Cardinality(Succeeded("deduct")) = 2
  /\ GetOrZero("u1") = 0

\* C2 (idempotent genesis): N concurrent initializeUser(u1, X) on an absent
\* ledger all return without error; as soon as one has returned, exactly one
\* genesis transaction is in the log and the balance is X; exactly one
\* returned call carries a generated id (once all have returned) and all
\* others carry the sentinel 'already_initialized'.
C2_IdempotentGenesis ==
  LET done == {c \in Clients : Returned(c)}
      fresh == Succeeded("initializeUser")
  IN /\ \A c \in done : call[c].result.kind = "TransactionResult"
     /\ \A c \in done \ fresh : call[c].result.txId = AlreadyInitialized
     /\ Cardinality(fresh) <= 1
     /\ done # {} =>
          /\ Cardinality(Entries("u1", IsGenesis)) = 1
          /\ Len(txs["u1"]) = 1
          /\ \A c \in done : /\ GetOrZero("u1") = call[c].amount
                              /\ call[c].result.balance = call[c].amount
     /\ (done # {} /\ Quiescent) =>
          /\ Cardinality(fresh) = 1
          /\ \A c \in fresh : Log("u1")[1].id = call[c].result.txId

\* Three initializeUser(u1, 2) have returned.
C2_Witness ==
  /\ \A c \in Clients : Returned(c) /\ call[c].op = "initializeUser"
                                      /\ call[c].amount = 2
  /\ GetOrZero("u1") = 2

C4_QuiescentBalanceIsLogSum ==
  Quiescent => \A u \in Users : GetOrZero(u) = calculateBalanceFromTransactions(u)

\* C5 (overdraft impossible): the cached balance of every user is never
\* negative, with rebuildBalance running beside the mutations.
C5_BalanceNeverNegative == \A u \in Users : GetOrZero(u) >= 0

\* The value the running call of c would store if its read and its write
\* were one atomic step on the present store.
AtomicOutcome(c) ==
  LET cl == call[c]
  IN CASE cl.op = "initializeUser" -> cl.amount
       [] cl.op = "deduct" -> GetOrZero(cl.user) - cl.amount
       [] cl.op = "add" -> GetOrZero(cl.user) + cl.amount
       [] OTHER -> calculateBalanceFromTransactions(cl.user)

\* C6 (no client-side read-modify-write): every step that changes a cached
\* balance stores a value decided from the store as it is in that very
\* step, never one computed from a read of an earlier round trip.
C6_NoClientSideReadModifyWrite ==
  [][\A u \in Users :
       balance'[u] # balance[u] =>
         \E c \in Clients : /\ ~Returned(c) /\ call[c].pc # "idle"
                             /\ call[c].user = u
                             /\ balance'[u] = <<AtomicOutcome(c)>>]_vars

\* C7 (append-only log): every step keeps every entry of every log, with
\* the same id, amount, action, metadata and timestamp.
C7_AppendOnly ==
  [][\A u \in Users : \A i \in 1..Len(txs[u]) :
       \E j \in 1..Len(txs'[u]) :
         /\ JSONParse(txs'[u][j].member) = JSONParse(txs[u][i].member)
         /\ txs'[u][j].score = txs[u][i].score]_vars

\* A second transaction was appended to a log, by another kind of call
\* than the first.
C7_Witness ==
  \E u \in Users :
    /\ Len(txs[u]) = 2
    /\ Log(u)[1].id # Log(u)[2].id
    /\ Log(u)[1].action # Log(u)[2].action

Evaluating(c, op) == call[c].pc = "eval" /\ call[c].op = op /\ call'[c].pc = "done"

\* C8 (insufficient deduct): a deduct whose script runs on a balance b
\* smaller than the amount returns InsufficientCreditsError(required =
\* amount, available = b) and changes neither the balance nor the log.
C8_InsufficientDeduct ==
  [][\A c \in Clients :
       Evaluating(c, "deduct") /\ GetOrZero(call[c].user) < call[c].amount =>
         /\ call'[c].result =
              InsufficientCreditsError(call[c].amount, GetOrZero(call[c].user))
         /\ balance' = balance
         /\ txs' = txs]_vars

C13_GetBalance ==
  [][\A c \in Clients :
       LET u == call'[c].user
       IN call'[c] # call[c] /\ call'[c].op = "getBalance" =>
            /\ balance' = balance
            /\ txs' = txs
            /\ call'[c].result =
                 NumberResult(IF balance[u] = <<>> THEN 0 ELSE balance[u][1])]_vars

\* getBalance returned 0 for a user that was never initialized while
\* another user holds a balance.
C13_Witness ==
  \E c \in Clients, u, v \in Users :
    /\ Returned(c) /\ call[c].op = "getBalance" /\ call[c].user = u
    /\ balance[u] = <<>> /\ txs[u] = <<>>
    /\ call[c].result = NumberResult(0)
    /\ balance[v] # <<>>
\* The sum of the amounts of the transactions of a log.
RECURSIVE SumOfLog(_)
SumOfLog(log) == IF log = <<>> THEN 0 ELSE Head(log).amount + SumOfLog(Tail(log))

Rebuilt(u) ==
  \E d \in Clients : /\ Returned(d) /\ call[d].op = "rebuildBalance"
                     /\ call[d].user = u
Returning(c, op) == call[c].pc # "done" /\ call'[c].pc = "done" /\ call'[c].op = op

\* C14 (round-trip reconciliation): from any log and any cached balance
\* (tampered or absent), with nothing written beside it, rebuildBalance(u)
\* stores the sum of the log, never changes the log, returns that sum and
\* never raises BalanceVerificationError; a verifyBalance(u) after it is
\* valid; a second rebuildBalance stores what is stored already.
C14_RebuildRoundTrip ==
  [][/\ txs' = txs
     /\ \A c \in Clients :
          LET u == call[c].user
              sum == SumOfLog(Log(u))
          IN /\ call[c].pc = "rb_set" /\ call'[c].pc = "vb_get" =>
                  /\ balance' = [balance EXCEPT ![u] = <<sum>>]
                  /\ Rebuilt(u) => balance' = balance
             /\ Returning(c, "rebuildBalance") =>
                  /\ call'[c].result = NumberResult(sum)
                  /\ balance[u] = <<sum>>
             /\ Returning(c, "verifyBalance") /\ Rebuilt(u) =>
                  /\ call'[c].result.valid
                  /\ call'[c].result.cached = sum
                  /\ call'[c].result.calculated = sum]_vars

\* On the log 100, -10, 50: a verifyBalance saw the tampered cache 139, a
\* rebuildBalance returned 140, and a later verifyBalance is valid.
C14_Witness ==
  \E c, d, e \in Clients :
    /\ Len(txs["u1"]) = 3 /\ SumOfLog(Log("u1")) = 140
    /\ Returned(c) /\ call[c].op = "verifyBalance"
    /\ call[c].result.cached = 139 /\ ~call[c].result.valid
    /\ Returned(d) /\ call[d].op = "rebuildBalance"
    /\ call[d].result = NumberResult(140)
    /\ Returned(e) /\ call[e].op = "verifyBalance"
    /\ call[e].result.valid /\ call[e].result.cached = 140
    /\ balance["u1"] = <<140>>

\* C15 (verification): with nothing written beside it, verifyBalance(u)
\* returns cached = the stored balance (absent read as 0), calculated = the
\* sum of the whole log, difference = cached - calculated, and valid exactly
\* when the difference is 0.
C15_VerifyBalance ==
  [][\A c \in Clients :
       LET u == call[c].user
           cached == IF balance[u] = <<>> THEN 0 ELSE balance[u][1]
           sum == SumOfLog(Log(u))
           r == call'[c].result
       IN Returning(c, "verifyBalance") =>
            /\ r.kind = "BalanceVerification"
            /\ r.cached = cached
            /\ r.calculated = sum
            /\ r.difference = cached - sum
            /\ r.valid <=> (cached = sum)
            /\ balance' = balance /\ txs' = txs]_vars

\* After initialize 100, deduct 10, add 50 the verification returned
\* {valid: true, cached: 140, calculated: 140, difference: 0}.
C15_Witness ==
  \E c \in Clients :
    /\ [i \in 1..Len(txs["u1"]) |-> Log("u1")[i].amount] = <<100, -10, 50>>
    /\ IsGenesis(Log("u1")[1])
    /\ Returned(c) /\ call[c].op = "verifyBalance"
    /\ call[c].result.kind = "BalanceVerification"
    /\ call[c].result.valid
    /\ call[c].result.cached = 140 /\ call[c].result.calculated = 140
    /\ call[c].result.difference = 0
\* An amount that is not a positive finite number; a string with no
\* character other than white space.
NotPositiveFinite(x) == x.k # "finite" \/ x.v <= 0
NegativeOrNotFinite(x) == x.k # "finite" \/ x.v < 0
Blank(str) == \A i \in 1..Len(CharsOf(str)) : CharsOf(str)[i] \in WhiteSpace
RejectedUntouched(c) ==
  /\ call'[c].pc = "done"
  /\ call'[c].result = TransactionError(NoId)
  /\ balance' = balance
  /\ txs' = txs

\* C16 (validation before the store): deduct and add called with an amount
\* that is <= 0 or not finite, or with an empty or blank action, and
\* initializeUser called with a negative or non-finite starting balance,
\* return TransactionError in the step of the call: no script is sent and
\* the store is unchanged.
C16_ValidationBeforeStore ==
  [][\A c \in Clients :
       LET u == call'[c].user
           op == call'[c].op
       IN ncalls' # ncalls =>
            /\ \A amount \in Numbers, action \in ActionStrings :
                 /\ NotPositiveFinite(amount) \/ Blank(action)
                 /\ \/ op = "deduct" /\ deductCall(c, u, amount, action, Undefined)
                    \/ op = "add" /\ addCall(c, u, amount, action, Undefined)
                 => RejectedUntouched(c)
            /\ \A credits \in Numbers :
                 /\ NegativeOrNotFinite(credits)
                 /\ op = "initializeUser" /\ initializeUserCall(c, u, credits)
                 => RejectedUntouched(c)]_vars

\* A deduct on a valid user was rejected after an earlier call on that
\* user had reached the store.
C16_Witness ==
  \E c \in Clients :
    /\ call[c] = Rejected("deduct", "u1")
    /\ balance["u1"] # <<>>
    /\ txs["u1"] # <<>>

\* A user id that is empty, longer than the limit, or holds a line feed or
\* a carriage return at any position.
Malformed(userId) ==
  \/ CharsOf(userId) = <<>>
  \/ Len(CharsOf(userId)) > MaxUserIdLength
  \/ Includes(CharsOf(userId), "\n")
  \/ Includes(CharsOf(userId), "\r")

\* C17 (user id rejected before the store): every call made with a
\* malformed user id was rejected without a store call, and no key of such
\* an id holds anything.
C17_MalformedUserIdRejected ==
  /\ \A c \in Clients :
       call[c].op # "none" /\ Malformed(call[c].user) =>
         call[c] = Rejected(call[c].op, call[c].user)
  /\ \A u \in UserIds :
       Malformed(u) => balance[u] = <<>> /\ txs[u] = <<>>
\* C18 (store faults): a script of initializeUser, deduct or add that fails
\* for another reason than insufficiency makes the call return
\* TransactionError with the id generated for the call; a deduct refused
\* for insufficiency returns InsufficientCreditsError.
C18_StoreFaultIsTransactionError ==
  [][\A c \in Clients :
       call[c].pc = "eval" /\ call'[c].pc = "done" =>
         IF call'[c].fault
           THEN /\ call'[c].result = TransactionError(call[c].txId)
                /\ call[c].txId.tag = "tx"
           ELSE call'[c].result.kind \in
                  {"TransactionResult", "InsufficientCreditsError"}]_vars
\* A getTransactions call returns a list in this step.
Querying(c) ==
  /\ call'[c] # call[c]
  /\ call'[c].op = "getTransactions"
  /\ call'[c].result.kind = "Transaction[]"
Smaller(a, b) == IF a < b THEN a ELSE b

\* C19 (latest transactions): getTransactions(u, {limit: k}) without time
\* bounds on a log of n transactions returns the min(k, n) transactions
\* appended last, the last appended first, with strictly descending
\* timestamps.
C19_LatestFirst ==
  [][\A c \in Clients :
       LET o == call'[c].options
           u == call'[c].user
           n == Len(txs[u])
           m == Smaller(OrElse(o.limit, DefaultLimit), n)
           r == call'[c].result.transactions
       IN Querying(c) /\ o.startTime = <<>> /\ o.endTime = <<>> =>
            /\ Len(r) = m
            /\ \A i \in 1..m : r[i] = Log(u)[n + 1 - i]
            /\ \A i \in 1..(m - 1) : r[i].timestamp > r[i + 1].timestamp]_vars

\* C20 (time window): getTransactions(u, {startTime, endTime, limit})
\* returns transactions of u with startTime <= timestamp <= endTime only
\* (endTime is the current time when not given), the newest first, and all
\* of them up to the limit: nothing from the window is left out for an
\* older one, nothing is returned twice.
C20_TimeWindow ==
  [][\A c \in Clients :
       LET o == call'[c].options
           u == call'[c].user
           lo == OrElse(o.startTime, 0)
           hi == OrElse(o.endTime, now)
           window == {i \in 1..Len(txs[u]) :
                        lo <= Log(u)[i].timestamp /\ Log(u)[i].timestamp <= hi}
           r == call'[c].result.transactions
           returned == {r[i] : i \in 1..Len(r)}
       IN Querying(c) /\ (o.startTime # <<>> \/ o.endTime # <<>>) =>
            /\ Len(r) = Smaller(OrElse(o.limit, DefaultLimit), Cardinality(window))
            /\ Cardinality(returned) = Len(r)
            /\ \A tx \in returned : \E j \in window : tx = Log(u)[j]
            /\ \A i \in 1..(Len(r) - 1) : r[i].timestamp >= r[i + 1].timestamp
            /\ \A j \in window : Log(u)[j] \notin returned =>
                 \A tx \in returned : tx.timestamp >= Log(u)[j].timestamp]_vars
\* C21 (limit checked and capped): a getTransactions call that returns a
\* list was given a positive limit (or none) and returns at most
\* min(limit, 1000) transactions; with any other limit the call is rejected
\* before the store is queried.
C21_LimitValidated ==
  [][\A c \in Clients :
       LET limit == OrElse(call'[c].options.limit, DefaultLimit)
       IN Querying(c) =>
            /\ limit > 0
            /\ Len(call'[c].result.transactions) <= Smaller(limit, MaxResults)]_vars

\* The table entry registered for an action in the engine's table.
Registered(e, action) == configs[engines[e][1]][action]

\* C22: calculateCost raises PricingConfigError for every action with no
\* registered pricing config and for every negative value; otherwise it
\* returns the registered calculate function applied to the value.
C22_CalculateCost ==
  priced.op = "calculateCost" =>
    IF Registered(priced.engine, priced.action) = <<>> \/ Negative(priced.value)
    THEN priced.kind = "PricingConfigError"
    ELSE /\ priced.kind = "number"
         /\ priced.cost =
              Calculate(Registered(priced.engine, priced.action)[1], priced.value)

\* C23: for a built-in metered action and every non-negative usage v,
\* calculateCost returns the integer ceil(v * rate): the least integer that
\* is not below v * rate.
C23_MeteredCost ==
  LET v == priced.value
      rate == PRICING_CONFIG[priced.action][1].rate
  IN (/\ priced.op = "calculateCost"
      /\ priced.action \in MeteredActions
      /\ Registered(priced.engine, priced.action) = PRICING_CONFIG[priced.action]
      /\ v.k \in {"finite", "Infinity"}
      /\ ~Negative(v))
     => /\ priced.kind = "number"
        /\ priced.cost.k = "finite"
        /\ priced.cost.d = 1
        /\ priced.cost.n * v.d >= v.n * rate
        /\ (priced.cost.n - 1) * v.d < v.n * rate

\* C24: setPricingConfig on one engine never changes what another engine
\* answers to hasPricingConfig, getPricingConfig and calculateCost, nor the
\* exported PRICING_CONFIG.
C24_TableOwnedByEngine ==
  [][\A e1, e2 \in Engines :
       (/\ e1 # e2
        /\ engines[e1] # <<>>
        /\ engines[e2] # <<>>
        /\ engines' = engines
        /\ priced'.op = "setPricingConfig"
        /\ priced'.engine = e1)
       => /\ configs'["PRICING_CONFIG"] = configs["PRICING_CONFIG"]
          /\ \A action \in PricingActions :
               /\ HasOf(e2, action)' = HasOf(e2, action)
               /\ ConfigOf(e2, action)' = ConfigOf(e2, action)
               /\ \A value \in PricingValues :
                    CostOf(e2, action, value)' = CostOf(e2, action, value)]_vars

\* C25: the balance entry of a user comes into existence only in an
\* initializeUser step that also appends the genesis transaction; deduct, add
\* and rebuildBalance on a user with no ledger never create it.
C25_OnlyInitializeCreates ==
  [][\A u \in UserIds :
       (balance[u] = <<>> /\ balance'[u] # <<>>)
       => \E c \in Clients :
            /\ Evaluating(c, "initializeUser")
            /\ call[c].user = u
            /\ Len(txs'[u]) = Len(txs[u]) + 1
            /\ \E i \in 1..Len(txs'[u]) :
                 /\ IsGenesis(JSONParse(txs'[u][i].member))
                 /\ JSONParse(txs'[u][i].member).id = call[c].txId]_vars

\* C26: in every reachable state each user's log holds at most one
\* transaction whose action is 'user_initialized', whatever actions the
\* callers of deduct and add pass.
C26_OneGenesis ==
  \A u \in Users : Cardinality(Entries(u, IsGenesis)) <= 1

ZeroAmount(tx) == tx.amount = 0

\* C27 as stated: no transaction with amount 0 is ever stored, the genesis
\* transaction of an initializeUser with starting balance 0 included.
C27_NoZeroAmount ==
  \A u \in Users : Entries(u, ZeroAmount) = {}

\* C27 as amended: deduct and add never store a transaction with amount 0;
\* a stored transaction with amount 0 is the genesis transaction that
\* initializeUser wrote for a starting balance of 0.
C27_ZeroAmountOnlyGenesis ==
  \A u \in Users : \A i \in Entries(u, ZeroAmount) :
    /\ Log(u)[i].action = "user_initialized"
    /\ Log(u)[i].metadata = <<"starting_credits">>
    /\ Cardinality(Entries(u, ZeroAmount)) = 1

\* A user initialized with starting balance 0 and then credited.
C27_Witness ==
  \E u \in Users : Entries(u, ZeroAmount) # {} /\ Len(txs[u]) = 2

\* C28: every stored amount is an integer: deduct and add send to the store
\* only strictly positive integers, initializeUser only a non-negative
\* integer, and a fractional amount is rejected before any store call.
C28_IntegerAmounts ==
  /\ \A u \in Users : \A i \in 1..Len(txs[u]) : IsInteger(Log(u)[i].amount)
  /\ \A u \in Users : balance[u] # <<>> => IsInteger(balance[u][1])
  /\ \A c \in Clients :
       call[c].pc = "eval" =>
         /\ IsInteger(call[c].amount)
         /\ IF call[c].op = "initializeUser" THEN call[c].amount >= 0
            ELSE call[c].amount > 0

\* C29: a call of a public ledger operation that fails, a store failure
\* during getBalance, getTransactions, verifyBalance or rebuildBalance
\* included, returns TransactionError, InsufficientCreditsError or
\* BalanceVerificationError, never a success and never the store's own error.
C29_TypedFailures ==
  \A c \in Clients :
    Returned(c) /\ call[c].fault =>
      call[c].result.kind \in {"TransactionError", "InsufficientCreditsError",
                               "BalanceVerificationError"}

\* C30: an invocation of initializeUser, deduct or add runs at most one
\* script and is never retried: the store changes only in the step that ends
\* one call in flight, that step writes the one outcome of the script to the
\* balance of the call's user and appends at most one transaction, a call
\* in flight only ever returns, and only a new invocation puts a call in
\* flight, whatever the outcome of the script.
C30_OneScriptPerCall ==
  [][/\ (balance' # balance \/ txs' # txs) =>
          \E c \in Clients :
            /\ call[c].pc = "eval" /\ call'[c].pc = "done"
            /\ \A d \in Clients \ {c} : call'[d] = call[d]
            /\ \A u \in UserIds \ {call[c].user} :
                 balance'[u] = balance[u] /\ txs'[u] = txs[u]
            /\ balance'[call[c].user] = <<AtomicOutcome(c)>>
            /\ Len(txs'[call[c].user]) <= Len(txs[call[c].user]) + 1
     /\ \A c \in Clients :
          /\ call[c].pc = "eval" => call'[c] = call[c] \/ call'[c].pc = "done"
          /\ (call[c].pc # "eval" /\ call'[c].pc = "eval")
             => ncalls' = ncalls + 1 /\ balance' = balance /\ txs' = txs]_vars

\* One call has failed at the store and another has run its script, which
\* logged a transaction.
C30_Witness ==
  \E c, d \in Clients :
    /\ Returned(c) /\ call[c].fault
    /\ Returned(d) /\ call[d].result.kind = "TransactionResult"
    /\ call[d].result.txId.tag = "tx"
    /\ txs[call[d].user] # <<>>

\* The cached balance right after the k-th entry of the log of u was
\* committed: the balance the script that wrote the entry returned to its
\* caller (every client makes one call, so its result is still there);
\* before the first entry the balance is absent and reads as 0.
BalanceAfter(u, k) ==
  IF k = 0 THEN 0
  ELSE LET c == CHOOSE d \in Clients : call[d].result.txId = Log(u)[k].id
       IN call[c].result.balance
DifferedEver(u) ==
  \E k \in 0..Len(txs[u]) :
    BalanceAfter(u, k) # SumOfLog(SubSeq(Log(u), 1, k))

\* C31 (no false corruption): a verifyBalance(u) that returned valid = false
\* ran while the cached balance of u really differed from the sum of the log
\* of u in some state, also when mutations of u commit between its two reads.
\* (Stated over all states of the ledger so far, which include those of the
\* call.)
C31_NoFalseCorruption ==
  \A c \in Clients :
    (/\ Returned(c) /\ call[c].op = "verifyBalance"
     /\ call[c].result.kind = "BalanceVerification"
     /\ ~call[c].result.valid)
    => DifferedEver(call[c].user)

\* C32 (rebuildBalance detects its own failure): when rebuildBalance(u) has
\* returned normally and every call that ran beside it has returned, the
\* cached balance of u equals the sum of the log of u.  (The calls made
\* after the rebuild are scripts, which move both by the same amount.)
C32_RebuildDetectsFailure ==
  (/\ Quiescent
   /\ call["c1"].op = "rebuildBalance" /\ Returned("c1")
   /\ call["c1"].result.kind = "number")
  => balance["u1"] = <<SumOfLog(Log("u1"))>>

\* C33 (deduct without a ledger): a deduct of any accepted amount on a user
\* with no balance entry and no log fails with InsufficientCreditsError
\* (required = the amount, available = 0) and creates neither.
C33_DeductWithoutLedger ==
  [][\A c \in Clients :
       LET u == call[c].user
       IN (Evaluating(c, "deduct") /\ balance[u] = <<>> /\ txs[u] = <<>>) =>
            /\ call[c].amount > 0
            /\ call'[c].result = InsufficientCreditsError(call[c].amount, 0)
            /\ balance' = balance /\ txs' = txs]_vars

\* Deducts of 0.5 and of 1.5 credits were both refused with available = 0,
\* and user u1 still has no ledger.
C33_Witness ==
  \E c, d \in Clients :
    /\ call[c].op = "deduct" /\ Returned(c) /\ call[c].amount = 1
    /\ call[c].result = InsufficientCreditsError(1, 0)
    /\ call[d].op = "deduct" /\ Returned(d) /\ call[d].amount = 3
    /\ call[d].result = InsufficientCreditsError(3, 0)
    /\ balance["u1"] = <<>> /\ txs["u1"] = <<>>

\* C34 (unique transaction ids): no two transactions stored in the logs, of
\* one user or of two, have the same id, and no stored transaction has the
\* id 'already_initialized'.
C34_UniqueIds ==
  /\ \A u, v \in Users :
       \A i \in 1..Len(txs[u]), j \in 1..Len(txs[v]) :
         (u # v \/ i # j) => Log(u)[i].id # Log(v)[j].id
  /\ \A u \in Users : \A i \in 1..Len(txs[u]) : Log(u)[i].id # AlreadyInitialized

\* The step in which the mutating call of client c ends in a TransactionError
\* raised by its catch block.
FailingInStore(c) ==
  /\ call[c].pc = "eval" /\ call'[c].pc = "done"
  /\ call'[c].fault /\ call'[c].result.kind = "TransactionError"

ConfiguredDefault(c) ==
  IF sdk[c].options = <<>> THEN <<100>>
  ELSE IF sdk[c].options[1].k = "finite" /\ sdk[c].options[1].v >= 0
    THEN <<sdk[c].options[1].v>>
  ELSE <<>>

\* C36 (configured default): initializeUser without a starting balance
\* creates a new user with the configured defaultCredits, when that is a
\* non-negative integer, 0 included, and with 100 when none is configured.
C36_ConfiguredDefault ==
  [][\A c \in Clients :
       LET u == call[c].user
       IN (Evaluating(c, "initializeUser") /\ ~Exists(u)
           /\ ConfiguredDefault(c) # <<>>) =>
            /\ balance'[u] = ConfiguredDefault(c)
            /\ call'[c].result.balance = ConfiguredDefault(c)[1]]_vars

\* A step of a read operation of client c.
Reading(c) ==
  /\ call'[c] # call[c]
  /\ call'[c].op \in {"getBalance", "getTransactions", "verifyBalance"}

\* C37 (reads are side-effect free): no step of getBalance, getTransactions
\* or verifyBalance changes the cached balance or the log of any user,
\* whatever the user id and whatever the outcome.
C37_ReadsChangeNothing ==
  [][(\E c \in Clients : Reading(c)) => balance' = balance /\ txs' = txs]_vars

\* getBalance returned 0 and verifyBalance returned a valid verification of
\* 0 against 0 for user u1, who still has neither a balance nor a log.
C37_Witness ==
  \E c, d \in Clients :
    /\ call[c].op = "getBalance" /\ Returned(c) /\ call[c].user = "u1"
    /\ call[c].result = NumberResult(0)
    /\ call[d].op = "verifyBalance" /\ Returned(d) /\ call[d].user = "u1"
    /\ call[d].result = BalanceVerification(0, 0)
    /\ balance["u1"] = <<>> /\ txs["u1"] = <<>>

\* User ids that look like keys, beside those the calls are made with.
KeyLikeUserIds == {"txs:u1"}

KeysDistinct ==
  \A u, v \in UserIds \cup KeyLikeUserIds :
    (validateUserId(u) /\ validateUserId(v)) =>
      /\ u # v => getBalanceKey(u) # getBalanceKey(v)
      /\ u # v => getTransactionsKey(u) # getTransactionsKey(v)
      /\ getBalanceKey(u) # getTransactionsKey(v)

\* C38 (ledgers are isolated): a step of an operation called with user id u
\* changes no value but those at the keys balance:{u} and txs:{u}; two
\* different accepted user ids have different balance keys and different
\* transaction keys, and no balance key is a transaction key.
C38_LedgersIsolated ==
  [][/\ \A c \in Clients :
          LET u == call'[c].user
          IN call'[c] # call[c] =>
               \A v \in UserIds :
                 /\ BalanceKey[v] # BalanceKey[u] => balance'[v] = balance[v]
                 /\ TransactionsKey[v] # TransactionsKey[u] => txs'[v] = txs[v]
     /\ KeysDistinct]_vars

\* Two accepted user ids that differ by a trailing space only have their
\* own ledgers: one was initialized with 2 credits, the other credited 1.
C38_Witness ==
  /\ balance[FullUserId] = <<2>> /\ Len(txs[FullUserId]) = 1
  /\ balance[PaddedUserId] = <<1>> /\ Len(txs[PaddedUserId]) = 1
  /\ \A u \in UserIds \ {FullUserId, PaddedUserId} :
       balance[u] = <<>> /\ txs[u] = <<>>

\* C39 (setPricingConfig): in the state setPricingConfig(a, c) leaves, its
\* engine answers hasPricingConfig(a) with true, getPricingConfig(a) with c
\* and calculateCost(a, v) with c.calculate(v) for every v that is not
\* negative; and the call changes none of the answers of that engine for
\* another name.
C39_SetPricingConfig ==
  [][\A e \in Engines, a \in PropertyNames :
       /\ (/\ priced.op = "setPricingConfig"
           /\ priced.engine = e /\ priced.action = a)
          => /\ HasOf(e, a).has
             /\ ConfigOf(e, a).kind = "PricingConfig"
             /\ ConfigOf(e, a).config = priced.config
             /\ \A v \in PricingValues :
                  ~Negative(v) =>
                    /\ CostOf(e, a, v).kind = "number"
                    /\ CostOf(e, a, v).cost = Calculate(priced.config, v)
       /\ (/\ priced'.op = "setPricingConfig" /\ configs' # configs
           /\ priced'.engine = e /\ priced'.action = a)
          => \A b \in PropertyNames \ {a} :
               /\ HasOf(e, b)' = HasOf(e, b)
               /\ ConfigOf(e, b)' = ConfigOf(e, b)]_vars

\* C40 (reconciliation run): every iteration of reconcileAll ends with
\* exactly one of the three counters going up by one, so that verified +
\* fixed + errors is the number of user ids gone through, and the total when
\* the run has finished; the user ids are gone through in order, each once;
\* rebuildBalance is called only for the user id whose verifyBalance has just
\* reported valid = false; fixed goes up only when rebuildBalance has
\* returned without raising, and a failure for one user id does not end the
\* run.
C40_ReconcileAll ==
  [][LET cl == call[Reconciler]
     IN /\ run.verified + run.fixed + run.errors = run.index
        /\ run.pc = "finished" =>
             /\ run.index = run.total /\ run.total = Len(run.userIds)
             /\ run' = run /\ call'[Reconciler] = cl
        /\ run.pc = "loop" => run.index < run.total
        /\ run' # run /\ run.pc = "loop" =>
             /\ run'.index = run.index + 1
             /\ run'.userIds = run.userIds /\ run'.total = run.total
             /\ run'.verified + run'.fixed + run'.errors = run'.index
             /\ run'.pc = IF run'.index = run.total THEN "finished" ELSE "loop"
             /\ run'.fixed # run.fixed =>
                  /\ cl.op = "rebuildBalance" /\ cl.user = UserId
                  /\ cl.pc = "done" /\ cl.result.kind = "number"
             /\ run'.verified # run.verified =>
                  /\ cl.op = "verifyBalance" /\ cl.user = UserId
                  /\ cl.pc = "done" /\ cl.result.kind = "BalanceVerification"
                  /\ cl.result.valid
        /\ (call'[Reconciler].op = "rebuildBalance" /\ cl.op # "rebuildBalance") =>
             /\ run' = run /\ run.pc = "loop"
             /\ call'[Reconciler].user = UserId
             /\ cl.op = "verifyBalance" /\ cl.user = UserId /\ cl.pc = "done"
             /\ cl.result.kind = "BalanceVerification" /\ ~cl.result.valid
        /\ (call'[Reconciler].op = "verifyBalance" /\ cl.pc \in {"idle", "done"}
            /\ call'[Reconciler] # cl) =>
             /\ run' = run /\ run.pc = "loop"
             /\ call'[Reconciler].user = UserId
             /\ cl.pc = "done" => cl.user # UserId]_vars

\* A run over <<"", "u1">> has finished with errors = 1 for the rejected
\* user id and fixed = 1 for u1, whose verification was found invalid.
C40_Witness ==
  /\ run.pc = "finished" /\ run.userIds = <<"", "u1">>
  /\ run.total = 2 /\ run.verified = 0 /\ run.fixed = 1 /\ run.errors = 1
  /\ call[Reconciler].op = "rebuildBalance"
  /\ call[Reconciler].result = NumberResult(1)
====
